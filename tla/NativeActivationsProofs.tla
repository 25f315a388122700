----------------------- MODULE NativeActivationsProofs -----------------------
(***************************************************************************)
(* Proofs about NativeActivations: whatever calls what and wherever an     *)
(* error ends a call, the pointers of the thread describe its control      *)
(* stack.  Every action pushes and pops activations one by one or several  *)
(* at a time and otherwise changes only their counters and errors, so each *)
(* part of the invariant is proved for a push, a pop, and a stack whose    *)
(* activations are alike.                                                  *)
(***************************************************************************)
EXTENDS NativeActivations, InductionFacts, SequenceTheorems, TLAPS

-----------------------------------------------------------------------------
(* Stacks that are alike.                                                  *)

\* Two activations that differ at most in their depth, errors and result.
Alike(a, b) ==
  /\ a.kind = b.kind
  /\ a.program = b.program
  /\ a.checkpoint = b.checkpoint
  /\ a.outer = b.outer
  /\ a.previous = b.previous
  /\ a.invocation = b.invocation

\* t holds the activations of s up to n.
Agree(s, t, n) == \A i \in 1..n : Alike(s[i], t[i])

Stacks == Seq(Activation)

\* What a stack of activations consists of.
LEMMA StackFacts ==
  ASSUME NEW s \in Stacks
  PROVE  /\ Len(s) \in Nat
         /\ DOMAIN s = 1..Len(s)
         /\ \A i \in 1..Len(s) : s[i] \in Activation
BY LenProperties, ElementOfSeq DEF Stacks

-----------------------------------------------------------------------------
(* The last activation of a kind.                                          *)

\* It depends on the kinds only.
LEMMA LastMoves ==
  ASSUME NEW s, NEW t, NEW n \in Nat, Agree(s, t, n), NEW kinds, NEW k, IsLast(s, n, kinds, k)
  PROVE  IsLast(t, n, kinds, k)
<1>1. \A i \in 1..n : s[i].kind = t[i].kind
  BY DEF Agree, Alike
<1>2. k \in 0..n /\ (k # 0 => k \in 1..n)
  BY DEF IsLast
<1>3. \A j \in (k + 1)..n : j \in 1..n
  BY <1>2
<1> QED BY <1>1, <1>2, <1>3 DEF IsLast

\* An activation of another kind on top does not matter.
LEMMA LastOver ==
  ASSUME NEW s, NEW n \in Nat, NEW kinds, s[n + 1].kind \notin kinds, NEW k
  PROVE  IsLast(s, n + 1, kinds, k) <=> IsLast(s, n, kinds, k)
<1>1. ASSUME IsLast(s, n, kinds, k)
      PROVE  IsLast(s, n + 1, kinds, k)
  <2>1. k \in 0..n /\ k \in 0..(n + 1)
    BY <1>1 DEF IsLast
  <2>2. \A j \in (k + 1)..(n + 1) : j = n + 1 \/ j \in (k + 1)..n
    BY <2>1
  <2> QED BY <1>1, <2>1, <2>2 DEF IsLast
<1>2. ASSUME IsLast(s, n + 1, kinds, k)
      PROVE  IsLast(s, n, kinds, k)
  <2>1. k \in 0..(n + 1) /\ k # n + 1
    BY <1>2 DEF IsLast
  <2>2. k \in 0..n
    BY <2>1
  <2>3. \A j \in (k + 1)..n : j \in (k + 1)..(n + 1)
    BY <2>2
  <2> QED BY <1>2, <2>2, <2>3 DEF IsLast
<1> QED BY <1>1, <1>2

\* One of the kind on top is the last.
LEMMA LastHere ==
  ASSUME NEW s, NEW n \in Nat, NEW kinds, s[n + 1].kind \in kinds
  PROVE  /\ IsLast(s, n + 1, kinds, n + 1)
         /\ \A k : IsLast(s, n + 1, kinds, k) => k = n + 1
<1>1. IsLast(s, n + 1, kinds, n + 1)
  BY DEF IsLast
<1>2. ASSUME NEW k, IsLast(s, n + 1, kinds, k), k # n + 1
      PROVE  FALSE
  <2>1. k \in 0..(n + 1)
    BY <1>2 DEF IsLast
  <2>2. n + 1 \in (k + 1)..(n + 1)
    BY <1>2, <2>1
  <2> QED BY <1>2, <2>2 DEF IsLast
<1> QED BY <1>1, <1>2

\* There is only one.
LEMMA LastUnique ==
  ASSUME NEW s, NEW n \in Nat, NEW kinds, NEW k, IsLast(s, n, kinds, k),
         NEW i \in 1..n, s[i].kind \in kinds
  PROVE  k # 0 /\ k \in 1..n /\ i <= k
<1>1. k \in 0..n
  BY DEF IsLast
<1>2. i \notin (k + 1)..n
  BY DEF IsLast
<1> QED BY <1>1, <1>2

\* What CHOOSE finds.
LEMMA LastInnermost ==
  ASSUME stack \in Stacks, NEW kinds, NEW k, IsLast(stack, Len(stack), kinds, k)
  PROVE  Innermost(kinds) = k
<1>1. DOMAIN stack = 1..Len(stack) /\ Len(stack) \in Nat
  BY StackFacts
<1>2. CASE k = 0
  <2>1. Positions(kinds) = {}
    BY <1>1, <1>2, LastUnique DEF Positions
  <2> QED BY <1>2, <2>1 DEF Innermost
<1>3. CASE k # 0
  <2>1. k \in 1..Len(stack) /\ k \in Positions(kinds)
    BY <1>1, <1>3 DEF IsLast, Positions
  <2>2. \A i \in Positions(kinds) : i \in 1..Len(stack) /\ i <= k
    BY <1>1, LastUnique DEF Positions
  <2>3. \A i \in Positions(kinds) : (\A j \in Positions(kinds) : j <= i) => i = k
    BY <1>1, <2>1, <2>2
  <2>4. Innermost(kinds) = CHOOSE i \in Positions(kinds) : \A j \in Positions(kinds) : j <= i
    BY <2>1 DEF Innermost
  <2> QED BY <2>1, <2>2, <2>3, <2>4
<1> QED BY <1>2, <1>3

-----------------------------------------------------------------------------
(* Checkpoints.                                                            *)

\* The checkpoint of a part of a stack depends on the kinds in that part and on
\* the raw frames of its boundaries.
LEMMA CheckpointMoves ==
  ASSUME NEW s, NEW t, NEW n \in Nat, Agree(s, t, n),
         NEW at, NEW to,
         \A d \in DOMAIN at : at[d] \in 1..n => d \in DOMAIN to /\ to[d] = at[d],
         NEW c, IsCheckpoint(s, n, at, c)
  PROVE  IsCheckpoint(t, n, to, c)
<1>1. PICK k \in 0..n :
        /\ IsLast(s, n, {"invoke", "raw"}, k)
        /\ \/ k = 0 /\ c = Null
           \/ k # 0 /\ s[k].kind = "invoke" /\ c = <<"invoke", k>>
           \/ k # 0 /\ s[k].kind = "raw" /\ \E d \in DOMAIN at : c = <<"raw", d>> /\ at[d] = k
  BY DEF IsCheckpoint
<1>2. IsLast(t, n, {"invoke", "raw"}, k)
  BY <1>1, LastMoves
<1>3. k # 0 => s[k].kind = t[k].kind
  BY DEF Agree, Alike
<1>4. k # 0 => \A d \in DOMAIN at : at[d] = k => d \in DOMAIN to /\ to[d] = k
  OBVIOUS
<1> QED BY <1>1, <1>2, <1>3, <1>4 DEF IsCheckpoint

\* Other activations do not change it.
LEMMA CheckpointOver ==
  ASSUME NEW s, NEW n \in Nat, s[n + 1].kind \notin {"invoke", "raw"}, NEW at, NEW c
  PROVE  IsCheckpoint(s, n + 1, at, c) <=> IsCheckpoint(s, n, at, c)
<1>1. \A k : IsLast(s, n + 1, {"invoke", "raw"}, k) <=> IsLast(s, n, {"invoke", "raw"}, k)
  BY LastOver
<1>2. \A k : IsLast(s, n, {"invoke", "raw"}, k) => k \in 0..n /\ k \in 0..(n + 1)
  BY DEF IsLast
<1> QED BY <1>1, <1>2 DEF IsCheckpoint

\* The checkpoint of an activation on top that is one.
LEMMA CheckpointHere ==
  ASSUME NEW s, NEW n \in Nat, s[n + 1].kind \in {"invoke", "raw"}, NEW at, NEW c
  PROVE  IsCheckpoint(s, n + 1, at, c) <=>
           \/ s[n + 1].kind = "invoke" /\ c = <<"invoke", n + 1>>
           \/ s[n + 1].kind = "raw" /\ \E d \in DOMAIN at : c = <<"raw", d>> /\ at[d] = n + 1
<1>1. IsLast(s, n + 1, {"invoke", "raw"}, n + 1)
  BY LastHere
<1>2. \A k : IsLast(s, n + 1, {"invoke", "raw"}, k) => k = n + 1
  BY LastHere
<1>3. n + 1 \in 0..(n + 1) /\ n + 1 # 0
  OBVIOUS
<1> QED BY <1>1, <1>2, <1>3 DEF IsCheckpoint

\* The checkpoints a stack has saved, the raw frames of its boundaries, and the
\* checkpoint c that is current.
Checkpoints(s, at, back, c) ==
  /\ \A i \in 1..Len(s) : s[i].kind = "invoke" => IsCheckpoint(s, i - 1, at, s[i].checkpoint)
  /\ \A d \in DOMAIN at : /\ at[d] \in 1..Len(s)
                          /\ s[at[d]].kind = "raw"
                          /\ IsCheckpoint(s, at[d] - 1, at, back[d])
  /\ \A i \in 1..Len(s) : s[i].kind = "raw" => \E d \in DOMAIN at : at[d] = i
  /\ \A d, e \in DOMAIN at : d < e => at[d] < at[e]
  /\ IsCheckpoint(s, Len(s), at, c)

\* Stacks that agree up to n agree up to less.
LEMMA AgreeBelow ==
  ASSUME NEW s, NEW t, NEW n \in Nat, Agree(s, t, n), NEW m \in 0..n
  PROVE  Agree(s, t, m)
BY DEF Agree

\* A stack of the same length, or with another activation that is no checkpoint.
LEMMA CheckpointsKeep ==
  ASSUME NEW s \in Stacks, NEW t \in Stacks, Agree(s, t, Len(s)),
         \/ Len(t) = Len(s)
         \/ Len(t) = Len(s) + 1 /\ t[Len(s) + 1].kind \notin {"invoke", "raw"},
         NEW at, NEW back, NEW c, Checkpoints(s, at, back, c)
  PROVE  Checkpoints(t, at, back, c)
<1>1. Len(s) \in Nat /\ Len(t) \in Nat
  BY StackFacts
<1>2. ASSUME NEW n \in 0..Len(s), NEW x, IsCheckpoint(s, n, at, x)
      PROVE  IsCheckpoint(t, n, at, x)
  <2>1. Agree(s, t, n) /\ n \in Nat
    BY <1>1, AgreeBelow
  <2>2. \A d \in DOMAIN at : at[d] \in 1..n => d \in DOMAIN at /\ at[d] = at[d]
    OBVIOUS
  <2> QED BY <1>2, <2>1, <2>2, CheckpointMoves
<1>3. \A i \in 1..Len(s) : s[i].kind = t[i].kind /\ s[i].checkpoint = t[i].checkpoint
  BY DEF Agree, Alike
<1>4. \A i \in 1..Len(t) : i \in 1..Len(s) \/ (i = Len(s) + 1 /\ t[i].kind \notin {"invoke", "raw"})
  BY <1>1
<1>5. \A i \in 1..Len(s) : i \in 1..Len(t) /\ i - 1 \in 0..Len(s)
  BY <1>1
<1>6. \A i \in 1..Len(t) : t[i].kind = "invoke" => IsCheckpoint(t, i - 1, at, t[i].checkpoint)
  BY <1>2, <1>3, <1>4, <1>5 DEF Checkpoints
<1>7. \A d \in DOMAIN at : /\ at[d] \in 1..Len(t)
                           /\ t[at[d]].kind = "raw"
                           /\ IsCheckpoint(t, at[d] - 1, at, back[d])
  BY <1>2, <1>3, <1>5 DEF Checkpoints
<1>8. \A i \in 1..Len(t) : t[i].kind = "raw" => \E d \in DOMAIN at : at[d] = i
  BY <1>3, <1>4 DEF Checkpoints
<1>9. IsCheckpoint(t, Len(t), at, c)
  <2>1. IsCheckpoint(t, Len(s), at, c)
    BY <1>1, <1>2 DEF Checkpoints
  <2> QED BY <1>1, <2>1, CheckpointOver
<1> QED BY <1>6, <1>7, <1>8, <1>9 DEF Checkpoints

\* NativeRecovery::invoke and InvocationScope: the new activation saves the
\* current checkpoint and becomes it.
LEMMA CheckpointsInvoke ==
  ASSUME NEW s \in Stacks, NEW t \in Stacks, Agree(s, t, Len(s)), Len(t) = Len(s) + 1,
         NEW at, NEW back, NEW c, Checkpoints(s, at, back, c),
         t[Len(t)].kind = "invoke", t[Len(t)].checkpoint = c
  PROVE  Checkpoints(t, at, back, <<"invoke", Len(t)>>)
<1>1. Len(s) \in Nat /\ Len(t) \in Nat
  BY StackFacts
<1>2. ASSUME NEW n \in 0..Len(s), NEW x, IsCheckpoint(s, n, at, x)
      PROVE  IsCheckpoint(t, n, at, x)
  <2>1. Agree(s, t, n) /\ n \in Nat
    BY <1>1, AgreeBelow
  <2>2. \A d \in DOMAIN at : at[d] \in 1..n => d \in DOMAIN at /\ at[d] = at[d]
    OBVIOUS
  <2> QED BY <1>2, <2>1, <2>2, CheckpointMoves
<1>3. \A i \in 1..Len(s) : s[i].kind = t[i].kind /\ s[i].checkpoint = t[i].checkpoint
  BY DEF Agree, Alike
<1>4. \A i \in 1..Len(t) : i \in 1..Len(s) \/ i = Len(t)
  BY <1>1
<1>5. \A i \in 1..Len(s) : i \in 1..Len(t) /\ i - 1 \in 0..Len(s)
  BY <1>1
<1>6. ASSUME NEW i \in 1..Len(t), t[i].kind = "invoke"
      PROVE  IsCheckpoint(t, i - 1, at, t[i].checkpoint)
  <2>1. CASE i \in 1..Len(s)
    BY <1>2, <1>3, <1>5, <1>6, <2>1 DEF Checkpoints
  <2>2. CASE i = Len(t)
    <3>1. i - 1 = Len(s) /\ IsCheckpoint(s, Len(s), at, c) /\ Len(s) \in 0..Len(s)
      BY <1>1, <2>2 DEF Checkpoints
    <3> QED BY <1>2, <2>2, <3>1
  <2> QED BY <1>4, <2>1, <2>2
<1>7. \A d \in DOMAIN at : /\ at[d] \in 1..Len(t)
                           /\ t[at[d]].kind = "raw"
                           /\ IsCheckpoint(t, at[d] - 1, at, back[d])
  BY <1>2, <1>3, <1>5 DEF Checkpoints
<1>8. \A i \in 1..Len(t) : t[i].kind = "raw" => \E d \in DOMAIN at : at[d] = i
  BY <1>3, <1>4 DEF Checkpoints
<1>9. IsCheckpoint(t, Len(t), at, <<"invoke", Len(t)>>)
  BY <1>1, CheckpointHere
<1> QED BY <1>6, <1>7, <1>8, <1>9 DEF Checkpoints

\* NativeBoundary::enter: the next raw frame saves the current checkpoint.
LEMMA CheckpointsEnter ==
  ASSUME NEW s \in Stacks, NEW t \in Stacks, Agree(s, t, Len(s)), Len(t) = Len(s) + 1,
         NEW at, NEW back, NEW c, Checkpoints(s, at, back, c),
         t[Len(t)].kind = "raw",
         NEW D \in Nat, DOMAIN at = 1..D,
         NEW to, DOMAIN to = 1..(D + 1), \A d \in 1..D : to[d] = at[d], to[D + 1] = Len(t),
         NEW saved, \A d \in 1..D : saved[d] = back[d], saved[D + 1] = c
  PROVE  Checkpoints(t, to, saved, <<"raw", D + 1>>)
<1>1. Len(s) \in Nat /\ Len(t) \in Nat
  BY StackFacts
<1>2. ASSUME NEW n \in 0..Len(s), NEW x, IsCheckpoint(s, n, at, x)
      PROVE  IsCheckpoint(t, n, to, x)
  <2>1. Agree(s, t, n) /\ n \in Nat
    BY <1>1, AgreeBelow
  <2>2. \A d \in DOMAIN at : at[d] \in 1..n => d \in DOMAIN to /\ to[d] = at[d]
    OBVIOUS
  <2> QED BY <1>2, <2>1, <2>2, CheckpointMoves
<1>3. \A i \in 1..Len(s) : s[i].kind = t[i].kind /\ s[i].checkpoint = t[i].checkpoint
  BY DEF Agree, Alike
<1>4. \A i \in 1..Len(t) : i \in 1..Len(s) \/ i = Len(t)
  BY <1>1
<1>5. \A i \in 1..Len(s) : i \in 1..Len(t) /\ i - 1 \in 0..Len(s)
  BY <1>1
<1>6. \A d \in 1..(D + 1) : d \in 1..D \/ d = D + 1
  OBVIOUS
<1>7. \A i \in 1..Len(t) : t[i].kind = "invoke" => IsCheckpoint(t, i - 1, to, t[i].checkpoint)
  BY <1>2, <1>3, <1>4, <1>5 DEF Checkpoints
<1>8. ASSUME NEW d \in DOMAIN to
      PROVE  /\ to[d] \in 1..Len(t)
             /\ t[to[d]].kind = "raw"
             /\ IsCheckpoint(t, to[d] - 1, to, saved[d])
  <2>1. CASE d \in 1..D
    BY <1>2, <1>3, <1>5, <2>1, SMTT(30) DEF Checkpoints
  <2>2. CASE d = D + 1
    <3>1. to[d] - 1 = Len(s) /\ IsCheckpoint(s, Len(s), at, c) /\ Len(s) \in 0..Len(s)
      BY <1>1, <2>2 DEF Checkpoints
    <3> QED BY <1>1, <1>2, <2>2, <3>1
  <2> QED BY <1>6, <2>1, <2>2
<1>9. \A i \in 1..Len(t) : t[i].kind = "raw" => \E d \in DOMAIN to : to[d] = i
  <2>1. D + 1 \in DOMAIN to /\ \A d \in 1..D : d \in DOMAIN to
    OBVIOUS
  <2> QED BY <1>3, <1>4, <2>1 DEF Checkpoints
<1>10. ASSUME NEW d \in DOMAIN to, NEW e \in DOMAIN to, d < e
       PROVE  to[d] < to[e]
  <2>1. d \in 1..D /\ to[d] \in 1..Len(s)
    BY <1>6, <1>10 DEF Checkpoints
  <2>2. CASE e = D + 1
    BY <1>1, <2>1, <2>2
  <2>3. CASE e \in 1..D
    BY <1>10, <2>1, <2>3 DEF Checkpoints
  <2> QED BY <1>6, <2>2, <2>3
<1>11. IsCheckpoint(t, Len(t), to, <<"raw", D + 1>>)
  <2>1. D + 1 \in DOMAIN to /\ to[D + 1] = Len(s) + 1 /\ t[Len(s) + 1].kind = "raw"
    OBVIOUS
  <2>2. IsCheckpoint(t, Len(s) + 1, to, <<"raw", D + 1>>)
    BY <1>1, <2>1, CheckpointHere
  <2> QED BY <2>2
<1> QED BY <1>7, <1>8, <1>9, <1>10, <1>11 DEF Checkpoints

\* The innermost checkpoint and what the thread's pointer says of it.
LEMMA CheckpointInner ==
  ASSUME NEW s \in Stacks, NEW D \in Nat, NEW at, DOMAIN at = 1..D, NEW back, NEW c,
         Checkpoints(s, at, back, c),
         NEW k, IsLast(s, Len(s), {"invoke", "raw"}, k)
  PROVE  /\ k = 0 => c = Null
         /\ k # 0 /\ s[k].kind = "invoke" => c = <<"invoke", k>>
         /\ k # 0 /\ s[k].kind = "raw" => c = <<"raw", D>> /\ D # 0 /\ at[D] = k
<1>1. Len(s) \in Nat
  BY StackFacts
<1>2. PICK j \in 0..Len(s) :
        /\ IsLast(s, Len(s), {"invoke", "raw"}, j)
        /\ \/ j = 0 /\ c = Null
           \/ j # 0 /\ s[j].kind = "invoke" /\ c = <<"invoke", j>>
           \/ j # 0 /\ s[j].kind = "raw" /\ \E d \in DOMAIN at : c = <<"raw", d>> /\ at[d] = j
  BY DEF Checkpoints, IsCheckpoint
<1>3. k \in 0..Len(s) /\ (k # 0 => s[k].kind \in {"invoke", "raw"})
      /\ (j # 0 => s[j].kind \in {"invoke", "raw"})
  BY <1>2 DEF IsLast
<1>4. j = k
  <2>1. k # 0 => k <= j /\ j # 0
    BY <1>1, <1>2, <1>3, LastUnique
  <2>2. j # 0 => j <= k /\ k # 0
    BY <1>1, <1>2, <1>3, LastUnique
  <2> QED BY <1>1, <1>3, <2>1, <2>2
<1>5. ASSUME k # 0, s[k].kind = "raw"
      PROVE  c = <<"raw", D>> /\ D # 0 /\ at[D] = k
  <2>1. PICK d \in 1..D : c = <<"raw", d>> /\ at[d] = k
    BY <1>2, <1>4, <1>5
  <2>2. D \in DOMAIN at /\ at[D] \in 1..Len(s) /\ s[at[D]].kind = "raw"
    BY <2>1, SMTT(30) DEF Checkpoints
  <2>3. at[D] <= k
    <3>1. PICK i \in 1..Len(s) : i = at[D]
      BY <2>2
    <3>2. s[i].kind \in {"invoke", "raw"}
      BY <2>2, <3>1
    <3> QED BY <1>1, <3>1, <3>2, LastUnique
  <2>4. d < D => at[d] < at[D]
    BY <2>2 DEF Checkpoints
  <2>5. ~(d < D)
    BY <1>1, <1>3, <2>1, <2>2, <2>3, <2>4
  <2>6. d = D
    BY <2>5
  <2> QED BY <2>1, <2>6
<1> QED BY <1>2, <1>3, <1>4, <1>5

\* An activation that is no checkpoint ends, and perhaps others change.
LEMMA CheckpointsPop ==
  ASSUME NEW s \in Stacks, NEW t \in Stacks, Len(s) = Len(t) + 1, Agree(s, t, Len(t)),
         s[Len(s)].kind \notin {"invoke", "raw"},
         NEW at, NEW back, NEW c, Checkpoints(s, at, back, c)
  PROVE  Checkpoints(t, at, back, c)
<1>1. Len(s) \in Nat /\ Len(t) \in Nat
  BY StackFacts
<1>2. ASSUME NEW n \in 0..Len(t), NEW x, IsCheckpoint(s, n, at, x)
      PROVE  IsCheckpoint(t, n, at, x)
  <2>1. Agree(s, t, n) /\ n \in Nat
    BY <1>1, AgreeBelow
  <2>2. \A d \in DOMAIN at : at[d] \in 1..n => d \in DOMAIN at /\ at[d] = at[d]
    OBVIOUS
  <2> QED BY <1>2, <2>1, <2>2, CheckpointMoves
<1>3. \A i \in 1..Len(t) : s[i].kind = t[i].kind /\ s[i].checkpoint = t[i].checkpoint
  BY DEF Agree, Alike
<1>4. \A i \in 1..Len(s) : i \in 1..Len(t) \/ i = Len(s)
  BY <1>1
<1>5. \A i \in 1..Len(t) : i \in 1..Len(s) /\ i - 1 \in 0..Len(t)
  BY <1>1
<1>6. \A i \in 1..Len(t) : t[i].kind = "invoke" => IsCheckpoint(t, i - 1, at, t[i].checkpoint)
  BY <1>2, <1>3, <1>5 DEF Checkpoints
<1>7. \A d \in DOMAIN at : at[d] \in 1..Len(t)
  BY <1>4 DEF Checkpoints
<1>8. \A d \in DOMAIN at : /\ at[d] \in 1..Len(t)
                           /\ t[at[d]].kind = "raw"
                           /\ IsCheckpoint(t, at[d] - 1, at, back[d])
  BY <1>2, <1>3, <1>5, <1>7 DEF Checkpoints
<1>9. \A i \in 1..Len(t) : t[i].kind = "raw" => \E d \in DOMAIN at : at[d] = i
  BY <1>3, <1>5 DEF Checkpoints
<1>10. IsCheckpoint(t, Len(t), at, c)
  <2>1. IsCheckpoint(s, Len(t) + 1, at, c)
    BY <1>1 DEF Checkpoints
  <2>2. IsCheckpoint(s, Len(t), at, c)
    BY <1>1, <2>1, CheckpointOver
  <2> QED BY <1>1, <1>2, <2>2
<1> QED BY <1>6, <1>8, <1>9, <1>10 DEF Checkpoints

\* The destructor of InvocationScope restores what it saved.
LEMMA CheckpointsReturn ==
  ASSUME NEW s \in Stacks, NEW t \in Stacks, Len(s) = Len(t) + 1, Agree(s, t, Len(t)),
         s[Len(s)].kind = "invoke",
         NEW at, NEW back, NEW c, Checkpoints(s, at, back, c)
  PROVE  Checkpoints(t, at, back, s[Len(s)].checkpoint)
<1>1. Len(s) \in Nat /\ Len(t) \in Nat
  BY StackFacts
<1>2. ASSUME NEW n \in 0..Len(t), NEW x, IsCheckpoint(s, n, at, x)
      PROVE  IsCheckpoint(t, n, at, x)
  <2>1. Agree(s, t, n) /\ n \in Nat
    BY <1>1, AgreeBelow
  <2>2. \A d \in DOMAIN at : at[d] \in 1..n => d \in DOMAIN at /\ at[d] = at[d]
    OBVIOUS
  <2> QED BY <1>2, <2>1, <2>2, CheckpointMoves
<1>3. \A i \in 1..Len(t) : s[i].kind = t[i].kind /\ s[i].checkpoint = t[i].checkpoint
  BY DEF Agree, Alike
<1>4. \A i \in 1..Len(s) : i \in 1..Len(t) \/ i = Len(s)
  BY <1>1
<1>5. \A i \in 1..Len(t) : i \in 1..Len(s) /\ i - 1 \in 0..Len(t)
  BY <1>1
<1>6. \A i \in 1..Len(t) : t[i].kind = "invoke" => IsCheckpoint(t, i - 1, at, t[i].checkpoint)
  BY <1>2, <1>3, <1>5 DEF Checkpoints
<1>7. \A d \in DOMAIN at : at[d] \in 1..Len(t)
  BY <1>4 DEF Checkpoints
<1>8. \A d \in DOMAIN at : /\ at[d] \in 1..Len(t)
                           /\ t[at[d]].kind = "raw"
                           /\ IsCheckpoint(t, at[d] - 1, at, back[d])
  BY <1>2, <1>3, <1>5, <1>7 DEF Checkpoints
<1>9. \A i \in 1..Len(t) : t[i].kind = "raw" => \E d \in DOMAIN at : at[d] = i
  BY <1>3, <1>5 DEF Checkpoints
<1>10. IsCheckpoint(t, Len(t), at, s[Len(s)].checkpoint)
  <2>1. Len(s) \in 1..Len(s) /\ Len(s) - 1 = Len(t) /\ Len(t) \in 0..Len(t)
    BY <1>1
  <2>2. IsCheckpoint(s, Len(t), at, s[Len(s)].checkpoint)
    BY <2>1 DEF Checkpoints
  <2> QED BY <1>2, <2>1, <2>2
<1> QED BY <1>6, <1>8, <1>9, <1>10 DEF Checkpoints

\* to and saved are what remains of D raw frames without the last.
Releases(D, at, back, to, saved) ==
  /\ DOMAIN at = 1..D /\ DOMAIN to = 1..(D - 1)
  /\ \A d \in 1..(D - 1) : to[d] = at[d] /\ saved[d] = back[d]

\* NativeBoundary::leave releases the last raw frame.
LEMMA CheckpointsLeave ==
  ASSUME NEW s \in Stacks, NEW t \in Stacks, Len(s) = Len(t) + 1, Agree(s, t, Len(t)),
         s[Len(s)].kind = "raw",
         NEW D \in Nat, NEW at, NEW back, NEW to, NEW saved, Releases(D, at, back, to, saved),
         NEW c, Checkpoints(s, at, back, c)
  PROVE  /\ D # 0 /\ c = <<"raw", D>> /\ at[D] = Len(s)
         /\ Checkpoints(t, to, saved, back[D])
<1> USE DEF Releases
<1>1. Len(s) \in Nat /\ Len(t) \in Nat
  BY StackFacts
<1>2. D # 0 /\ c = <<"raw", D>> /\ at[D] = Len(s) /\ D \in DOMAIN at
  <2>1. IsLast(s, Len(s), {"invoke", "raw"}, Len(s))
    BY <1>1, LastHere
  <2> QED BY <1>1, <2>1, CheckpointInner
<1>3. \A d \in DOMAIN at : at[d] \in 1..Len(t) => d \in DOMAIN to /\ to[d] = at[d]
  <2>1. \A d \in 1..D : d \in 1..(D - 1) \/ d = D
    OBVIOUS
  <2>2. at[D] \notin 1..Len(t)
    BY <1>1, <1>2
  <2> QED BY <2>1, <2>2
<1>4. \A d \in DOMAIN to : d \in DOMAIN at /\ d < D /\ to[d] = at[d] /\ at[d] \in 1..Len(t)
  <2>1. \A d \in 1..(D - 1) : d \in 1..D /\ d < D
    OBVIOUS
  <2>2. \A d \in 1..(D - 1) : at[d] \in 1..Len(s) /\ at[d] < Len(s)
    BY <1>2, <2>1 DEF Checkpoints
  <2> QED BY <1>1, <2>1, <2>2
<1>5. ASSUME NEW n \in 0..Len(t), NEW x, IsCheckpoint(s, n, at, x)
      PROVE  IsCheckpoint(t, n, to, x)
  <2>1. Agree(s, t, n) /\ n \in Nat
    BY <1>1, AgreeBelow
  <2>2. \A d \in DOMAIN at : at[d] \in 1..n => d \in DOMAIN to /\ to[d] = at[d]
    BY <1>1, <1>3
  <2> QED BY <1>5, <2>1, <2>2, CheckpointMoves
<1>6. \A i \in 1..Len(t) : s[i].kind = t[i].kind /\ s[i].checkpoint = t[i].checkpoint
  BY DEF Agree, Alike
<1>7. \A i \in 1..Len(t) : i \in 1..Len(s) /\ i - 1 \in 0..Len(t)
  BY <1>1
<1>8. \A i \in 1..Len(t) : t[i].kind = "invoke" => IsCheckpoint(t, i - 1, to, t[i].checkpoint)
  BY <1>5, <1>6, <1>7 DEF Checkpoints
<1>9. ASSUME NEW d \in DOMAIN to
      PROVE  /\ to[d] \in 1..Len(t)
             /\ t[to[d]].kind = "raw"
             /\ IsCheckpoint(t, to[d] - 1, to, saved[d])
  <2>1. d \in DOMAIN at /\ to[d] = at[d] /\ at[d] \in 1..Len(t) /\ saved[d] = back[d]
    BY <1>4
  <2>2. s[at[d]].kind = "raw" /\ IsCheckpoint(s, at[d] - 1, at, back[d])
    BY <2>1 DEF Checkpoints
  <2> QED BY <1>5, <1>6, <1>7, <2>1, <2>2
<1>10. \A i \in 1..Len(t) : t[i].kind = "raw" => \E d \in DOMAIN to : to[d] = i
  BY <1>3, <1>6, <1>7 DEF Checkpoints
<1>11. \A d, e \in DOMAIN to : d < e => to[d] < to[e]
  BY <1>4 DEF Checkpoints
<1>12. IsCheckpoint(t, Len(t), to, back[D])
  <2>1. Len(s) - 1 = Len(t) /\ Len(t) \in 0..Len(t)
    BY <1>1
  <2>2. IsCheckpoint(s, Len(t), at, back[D])
    BY <1>2, <2>1 DEF Checkpoints
  <2> QED BY <1>5, <2>1, <2>2
<1> QED BY <1>2, <1>8, <1>9, <1>10, <1>11, <1>12 DEF Checkpoints

-----------------------------------------------------------------------------
(* Scopes and interpreters: chains of saved pointers.                      *)

\* top is the last activation of these kinds, and each has saved the one before it.
Chain(s, kinds, link, top) ==
  /\ IsLast(s, Len(s), kinds, top)
  /\ \A i \in 1..Len(s) : s[i].kind \in kinds => IsLast(s, i - 1, kinds, link[i])

\* A stack of the same length, or with another activation of no such kind.
LEMMA ChainKeep ==
  ASSUME NEW s \in Stacks, NEW t \in Stacks, Agree(s, t, Len(s)),
         NEW kinds,
         \/ Len(t) = Len(s)
         \/ Len(t) = Len(s) + 1 /\ t[Len(s) + 1].kind \notin kinds,
         NEW link, NEW to, \A i \in 1..Len(s) : link[i] = to[i],
         NEW top, Chain(s, kinds, link, top)
  PROVE  Chain(t, kinds, to, top)
<1>1. Len(s) \in Nat /\ Len(t) \in Nat
  BY StackFacts
<1>2. ASSUME NEW n \in 0..Len(s), NEW k, IsLast(s, n, kinds, k)
      PROVE  IsLast(t, n, kinds, k)
  <2>1. Agree(s, t, n) /\ n \in Nat
    BY <1>1, AgreeBelow
  <2> QED BY <1>2, <2>1, LastMoves
<1>3. \A i \in 1..Len(s) : s[i].kind = t[i].kind /\ i - 1 \in 0..Len(s)
  BY <1>1 DEF Agree, Alike
<1>4. \A i \in 1..Len(t) : i \in 1..Len(s) \/ (i = Len(s) + 1 /\ t[i].kind \notin kinds)
  BY <1>1
<1>5. \A i \in 1..Len(t) : t[i].kind \in kinds => IsLast(t, i - 1, kinds, to[i])
  BY <1>2, <1>3, <1>4 DEF Chain
<1>6. IsLast(t, Len(t), kinds, top)
  <2>1. IsLast(t, Len(s), kinds, top)
    BY <1>1, <1>2 DEF Chain
  <2> QED BY <1>1, <2>1, LastOver
<1> QED BY <1>5, <1>6 DEF Chain

\* A new activation of the kind saves the last one and is the last.
LEMMA ChainPush ==
  ASSUME NEW s \in Stacks, NEW t \in Stacks, Agree(s, t, Len(s)), Len(t) = Len(s) + 1,
         NEW kinds, t[Len(t)].kind \in kinds,
         NEW link, NEW to, \A i \in 1..Len(s) : link[i] = to[i],
         NEW top, Chain(s, kinds, link, top), to[Len(t)] = top
  PROVE  Chain(t, kinds, to, Len(t))
<1>1. Len(s) \in Nat /\ Len(t) \in Nat
  BY StackFacts
<1>2. ASSUME NEW n \in 0..Len(s), NEW k, IsLast(s, n, kinds, k)
      PROVE  IsLast(t, n, kinds, k)
  <2>1. Agree(s, t, n) /\ n \in Nat
    BY <1>1, AgreeBelow
  <2> QED BY <1>2, <2>1, LastMoves
<1>3. \A i \in 1..Len(s) : s[i].kind = t[i].kind /\ i - 1 \in 0..Len(s)
  BY <1>1 DEF Agree, Alike
<1>4. \A i \in 1..Len(t) : i \in 1..Len(s) \/ i = Len(s) + 1
  BY <1>1
<1>5. IsLast(t, Len(s), kinds, top)
  BY <1>1, <1>2 DEF Chain
<1>6. \A i \in 1..Len(t) : t[i].kind \in kinds => IsLast(t, i - 1, kinds, to[i])
  <2>1. (Len(s) + 1) - 1 = Len(s)
    BY <1>1
  <2> QED BY <1>2, <1>3, <1>4, <1>5, <2>1 DEF Chain
<1>7. IsLast(t, Len(t), kinds, Len(t))
  BY <1>1, LastHere
<1> QED BY <1>6, <1>7 DEF Chain

\* The last activation ends; if it is of the kind, the one it saved is the last.
LEMMA ChainPop ==
  ASSUME NEW s \in Stacks, NEW t \in Stacks, Len(s) = Len(t) + 1, Agree(s, t, Len(t)),
         NEW kinds,
         NEW link, NEW to, \A i \in 1..Len(t) : link[i] = to[i],
         NEW top, Chain(s, kinds, link, top)
  PROVE  Chain(t, kinds, to, IF s[Len(s)].kind \in kinds THEN link[Len(s)] ELSE top)
<1>1. Len(s) \in Nat /\ Len(t) \in Nat
  BY StackFacts
<1>2. ASSUME NEW n \in 0..Len(t), NEW k, IsLast(s, n, kinds, k)
      PROVE  IsLast(t, n, kinds, k)
  <2>1. Agree(s, t, n) /\ n \in Nat
    BY <1>1, AgreeBelow
  <2> QED BY <1>2, <2>1, LastMoves
<1>3. \A i \in 1..Len(t) : s[i].kind = t[i].kind /\ i - 1 \in 0..Len(t) /\ i \in 1..Len(s)
  BY <1>1 DEF Agree, Alike
<1>4. \A i \in 1..Len(t) : t[i].kind \in kinds => IsLast(t, i - 1, kinds, to[i])
  BY <1>2, <1>3 DEF Chain
<1>5. CASE s[Len(s)].kind \in kinds
  <2>1. Len(s) - 1 = Len(t) /\ Len(s) \in 1..Len(s) /\ Len(t) \in 0..Len(t)
    BY <1>1
  <2>2. IsLast(s, Len(t), kinds, link[Len(s)])
    BY <1>5, <2>1 DEF Chain
  <2> QED BY <1>2, <1>4, <1>5, <2>1, <2>2 DEF Chain
<1>6. CASE s[Len(s)].kind \notin kinds
  <2>1. IsLast(s, Len(t) + 1, kinds, top) /\ Len(t) \in 0..Len(t)
    BY <1>1 DEF Chain
  <2>2. IsLast(s, Len(t), kinds, top)
    BY <1>1, <1>6, <2>1, LastOver
  <2> QED BY <1>2, <1>4, <1>6, <2>1, <2>2 DEF Chain
<1> QED BY <1>5, <1>6

-----------------------------------------------------------------------------
(* The call depth of each program's interpreter.                           *)

\* The interpreters of p on a stack.
Mine(s, p) == {i \in 1..Len(s) : s[i].kind = "interp" /\ s[i].program = p}

\* They share one invocation, the outermost, whose depth counts them.
Budget(s) ==
  \A p \in Programs : \A i \in Mine(s, p) :
    /\ \A j \in Mine(s, p) : s[i].invocation <= j
    /\ s[i].invocation \in Mine(s, p)
    /\ s[s[i].invocation].depth = Cardinality(Mine(s, p))
    /\ Cardinality(Mine(s, p)) <= Limit

\* The activations of one program are counted.
LEMMA MineFinite ==
  ASSUME NEW s \in Stacks, NEW p
  PROVE  /\ IsFiniteSet(Mine(s, p)) /\ Cardinality(Mine(s, p)) \in Nat
         /\ Mine(s, p) \subseteq 1..Len(s)
         /\ Mine(s, p) = {} => Cardinality(Mine(s, p)) = 0
         /\ Mine(s, p) # {} => Cardinality(Mine(s, p)) # 0
<1>1. Mine(s, p) \subseteq 1..Len(s) /\ Len(s) \in Nat
  BY StackFacts DEF Mine
<1>2. IsFiniteSet(1..Len(s))
  BY <1>1, FS_Interval
<1>3. IsFiniteSet(Mine(s, p))
  BY <1>1, <1>2, FS_Subset
<1> QED BY <1>1, <1>3, FS_CardinalityType, FS_EmptySet

\* Any two of them name the same invocation.
LEMMA OwnersAgree ==
  ASSUME NEW s \in Stacks, Budget(s), NEW p \in Programs, NEW i \in Mine(s, p), NEW j \in Mine(s, p)
  PROVE  s[i].invocation = s[j].invocation
<1>1. s[i].invocation \in Mine(s, p) /\ s[j].invocation \in Mine(s, p)
  BY DEF Budget
<1>2. s[i].invocation <= s[j].invocation /\ s[j].invocation <= s[i].invocation
  BY <1>1 DEF Budget
<1>3. s[i].invocation \in 1..Len(s) /\ s[j].invocation \in 1..Len(s) /\ Len(s) \in Nat
  BY <1>1, MineFinite, StackFacts
<1> QED BY <1>2, <1>3

\* Other activations, and steps that change no depth, keep the count.
LEMMA BudgetKeep ==
  ASSUME NEW s \in Stacks, NEW t \in Stacks,
         \/ Len(t) = Len(s) /\ Agree(s, t, Len(s))
         \/ Len(t) = Len(s) + 1 /\ Agree(s, t, Len(s)) /\ t[Len(t)].kind # "interp"
         \/ Len(s) = Len(t) + 1 /\ Agree(s, t, Len(t)) /\ s[Len(s)].kind # "interp",
         \A i \in 1..Len(s) : i \in 1..Len(t) => s[i].depth = t[i].depth,
         Budget(s)
  PROVE  Budget(t)
<1>1. Len(s) \in Nat /\ Len(t) \in Nat
  BY StackFacts
<1>2. \A p : Mine(t, p) = Mine(s, p)
  <2>1. CASE Len(t) = Len(s) /\ Agree(s, t, Len(s))
    BY <2>1 DEF Mine, Agree, Alike
  <2>2. CASE Len(t) = Len(s) + 1 /\ Agree(s, t, Len(s)) /\ t[Len(t)].kind # "interp"
    <3>1. \A i : i \in 1..Len(t) <=> i \in 1..Len(s) \/ i = Len(t)
      BY <1>1, <2>2
    <3> QED BY <2>2, <3>1 DEF Mine, Agree, Alike
  <2>3. CASE Len(s) = Len(t) + 1 /\ Agree(s, t, Len(t)) /\ s[Len(s)].kind # "interp"
    <3>1. \A i : i \in 1..Len(s) <=> i \in 1..Len(t) \/ i = Len(s)
      BY <1>1, <2>3
    <3> QED BY <2>3, <3>1 DEF Mine, Agree, Alike
  <2> QED BY <2>1, <2>2, <2>3
<1>3. \A p : \A i \in Mine(s, p) : s[i].invocation = t[i].invocation /\ s[i].depth = t[i].depth
  <2>1. \A p : \A i \in Mine(s, p) : i \in 1..Len(s) /\ i \in 1..Len(t)
    BY <1>2, MineFinite
  <2> QED BY <2>1 DEF Agree, Alike
<1> QED BY <1>2, <1>3 DEF Budget

\* t has one more interpreter of p than s, which uses the invocation that those of s
\* share, or its own when it is the first.
Joins(s, t, p, owner) ==
  /\ Agree(s, t, Len(s)) /\ Len(t) = Len(s) + 1
  /\ t[Len(t)].kind = "interp" /\ t[Len(t)].program = p /\ t[Len(t)].invocation = owner
  /\ Mine(s, p) = {} => owner = Len(t)
  /\ Mine(s, p) # {} => \E i \in Mine(s, p) : owner = s[i].invocation
  /\ t[owner].depth = Cardinality(Mine(s, p)) + 1
  /\ Cardinality(Mine(s, p)) < Limit
  /\ \A i \in 1..Len(s) : i # owner => t[i].depth = s[i].depth

\* InterpreterInvocation::invoke counts the call.
LEMMA BudgetPush ==
  ASSUME NEW s \in Stacks, NEW t \in Stacks, NEW p \in Programs, NEW owner,
         Joins(s, t, p, owner), Budget(s)
  PROVE  Budget(t)
<1> USE DEF Joins
<1>1. Len(s) \in Nat /\ Len(t) \in Nat /\ Limit \in Nat
  BY StackFacts, ProgramAssumption
<1>2. \A i : i \in 1..Len(t) <=> i \in 1..Len(s) \/ i = Len(t)
  BY <1>1
<1>3. /\ Mine(t, p) = Mine(s, p) \cup {Len(t)}
      /\ \A q : q # p => Mine(t, q) = Mine(s, q)
  BY <1>2 DEF Mine, Agree, Alike
<1>4. Len(t) \notin Mine(s, p) /\ \A i \in Mine(s, p) : i \in 1..Len(s)
  BY <1>1, MineFinite
<1>5. Cardinality(Mine(t, p)) = Cardinality(Mine(s, p)) + 1 /\ Cardinality(Mine(t, p)) <= Limit
  <2>1. PICK M : M = Mine(s, p) /\ IsFiniteSet(M) /\ Cardinality(M) \in Nat
    BY MineFinite
  <2>2. Cardinality(M \cup {Len(t)}) = Cardinality(M) + 1
    BY <1>4, <2>1, FS_AddElement
  <2>3. Cardinality(M) + 1 <= Limit
    BY <1>1, <2>1
  <2> QED BY <1>3, <2>1, <2>2, <2>3
<1>6. \A q : \A i \in Mine(s, q) : t[i].invocation = s[i].invocation
  BY MineFinite DEF Agree, Alike
<1>7. owner \in Mine(t, p) /\ \A j \in Mine(t, p) : owner <= j /\ t[j].invocation = owner
  <2>1. CASE Mine(s, p) = {}
    BY <1>1, <1>3, <2>1
  <2>2. CASE Mine(s, p) # {}
    <3>1. PICK i \in Mine(s, p) : owner = s[i].invocation
      BY <2>2
    <3>2. owner \in Mine(s, p) /\ \A j \in Mine(s, p) : owner <= j /\ s[j].invocation = owner
      BY <3>1, OwnersAgree DEF Budget
    <3>3. owner <= Len(t)
      BY <1>1, <1>4, <3>2
    <3> QED BY <1>3, <1>6, <3>2, <3>3
  <2> QED BY <2>1, <2>2
<1>8. ASSUME NEW q \in Programs, NEW i \in Mine(t, q)
      PROVE  /\ \A j \in Mine(t, q) : t[i].invocation <= j
             /\ t[i].invocation \in Mine(t, q)
             /\ t[t[i].invocation].depth = Cardinality(Mine(t, q))
             /\ Cardinality(Mine(t, q)) <= Limit
  <2>1. CASE q = p
    BY <1>5, <1>7, <1>8, <2>1
  <2>2. CASE q # p
    <3>1. Mine(t, q) = Mine(s, q) /\ i \in Mine(s, q) /\ t[i].invocation = s[i].invocation
      BY <1>3, <1>6, <1>8, <2>2
    <3>2. s[i].invocation \in Mine(s, q)
      BY <3>1 DEF Budget
    <3>3. s[i].invocation # owner
      BY <1>7, <2>2, <3>1, <3>2 DEF Mine
    <3>4. t[s[i].invocation].depth = s[s[i].invocation].depth
      BY <3>2, <3>3, MineFinite
    <3> QED BY <3>1, <3>2, <3>4 DEF Budget
  <2> QED BY <2>1, <2>2
<1> QED BY <1>8 DEF Budget

\* t is s without its last activation, an interpreter of p whose depth has been
\* counted down in the invocation it used.
Quits(s, t, p, owner) ==
  /\ Len(s) = Len(t) + 1 /\ Agree(s, t, Len(t))
  /\ s[Len(s)].kind = "interp" /\ s[Len(s)].program = p /\ s[Len(s)].invocation = owner
  /\ \A i \in 1..Len(t) : t[i].depth = IF i = owner THEN s[i].depth - 1 ELSE s[i].depth

\* The destructor of Depth.
LEMMA BudgetPop ==
  ASSUME NEW s \in Stacks, NEW t \in Stacks, NEW p \in Programs, NEW owner,
         Quits(s, t, p, owner), Budget(s)
  PROVE  Budget(t)
<1> USE DEF Quits
<1>1. Len(s) \in Nat /\ Len(t) \in Nat /\ Limit \in Nat
  BY StackFacts, ProgramAssumption
<1>2. \A i : i \in 1..Len(s) <=> i \in 1..Len(t) \/ i = Len(s)
  BY <1>1
<1>3. /\ Mine(t, p) = Mine(s, p) \ {Len(s)}
      /\ Len(s) \in Mine(s, p)
      /\ \A q : q # p => Mine(t, q) = Mine(s, q)
  <2>1. Len(s) \notin 1..Len(t)
    BY <1>1
  <2> QED BY <1>2, <2>1 DEF Mine, Agree, Alike
<1>4. /\ Cardinality(Mine(t, p)) = Cardinality(Mine(s, p)) - 1
      /\ Cardinality(Mine(s, p)) \in Nat /\ Cardinality(Mine(t, p)) \in Nat
  <2>1. PICK M : M = Mine(s, p) /\ IsFiniteSet(M) /\ Cardinality(M) \in Nat
    BY MineFinite
  <2>2. Cardinality(M \ {Len(s)}) = Cardinality(M) - 1
    BY <1>3, <2>1, FS_RemoveElement
  <2>3. Cardinality(Mine(t, p)) \in Nat
    BY MineFinite
  <2> QED BY <1>3, <2>1, <2>2, <2>3
<1>5. owner \in Mine(s, p) /\ \A j \in Mine(s, p) : owner <= j /\ s[j].invocation = owner
  BY <1>3, OwnersAgree DEF Budget
<1>6. s[owner].depth = Cardinality(Mine(s, p)) /\ Cardinality(Mine(s, p)) <= Limit
  BY <1>3 DEF Budget
<1>7. \A q : \A i \in Mine(t, q) : i \in 1..Len(t) /\ t[i].invocation = s[i].invocation
  BY MineFinite DEF Agree, Alike
<1>8. ASSUME NEW i \in Mine(t, p)
      PROVE  /\ \A j \in Mine(t, p) : t[i].invocation <= j
             /\ t[i].invocation \in Mine(t, p)
             /\ t[t[i].invocation].depth = Cardinality(Mine(t, p))
             /\ Cardinality(Mine(t, p)) <= Limit
  <2>1. t[i].invocation = owner
    BY <1>3, <1>5, <1>7, <1>8
  <2>2. owner <= i /\ i \in 1..Len(t) /\ owner \in 1..Len(s)
    BY <1>3, <1>5, <1>7, <1>8, MineFinite
  <2>3. owner # Len(s) /\ owner \in 1..Len(t)
    BY <1>1, <2>2
  <2>4. t[owner].depth = Cardinality(Mine(t, p))
    BY <1>4, <1>6, <2>3
  <2>5. owner \in Mine(t, p)
    BY <1>3, <1>5, <2>3
  <2>6. Cardinality(Mine(t, p)) <= Limit
    BY <1>1, <1>4, <1>6
  <2> QED BY <1>3, <1>5, <2>1, <2>4, <2>5, <2>6
<1>9. ASSUME NEW q \in Programs, q # p, NEW i \in Mine(t, q)
      PROVE  /\ \A j \in Mine(t, q) : t[i].invocation <= j
             /\ t[i].invocation \in Mine(t, q)
             /\ t[t[i].invocation].depth = Cardinality(Mine(t, q))
             /\ Cardinality(Mine(t, q)) <= Limit
  <2>1. Mine(t, q) = Mine(s, q) /\ i \in Mine(s, q) /\ t[i].invocation = s[i].invocation
    BY <1>3, <1>7, <1>9
  <2>2. s[i].invocation \in Mine(s, q) /\ s[i].invocation \in Mine(t, q)
    BY <2>1 DEF Budget
  <2>3. s[i].invocation # owner
    BY <1>5, <1>9, <2>2 DEF Mine
  <2>4. t[s[i].invocation].depth = s[s[i].invocation].depth
    BY <1>7, <2>2, <2>3
  <2> QED BY <2>1, <2>2, <2>4 DEF Budget
<1> QED BY <1>8, <1>9 DEF Budget

\* The interpreters that a stack has saved, and the innermost one.
Interpreters(s, a) ==
  /\ Chain(s, {"interp"}, [i \in 1..Len(s) |-> s[i].previous], a)
  /\ \A i \in 1..Len(s) : s[i].kind # "interp" => s[i].previous = 0

\* InvocationActivation::find, which follows the saved pointers, finds the
\* invocation that the interpreters of p share, from whatever depth.
LEMMA FindFacts ==
  ASSUME stack \in Stacks, Interpreters(stack, activation), NEW p \in Programs
  PROVE  /\ find(p) \in Nat
         /\ Mine(stack, p) = {} => find(p) = 0
         /\ Mine(stack, p) # {} => \E i \in Mine(stack, p) : find(p) = stack[i].invocation
<1>1. PICK N \in Nat : N = Len(stack)
  BY StackFacts
<1>2. \A n \in 1..N : stack[n].invocation \in Nat
  BY <1>1, StackFacts DEF Activation
<1>3. ASSUME NEW n \in 1..N
      PROVE  /\ stack[n].previous \in 0..(n - 1)
             /\ stack[n].kind = "interp" => IsLast(stack, n - 1, {"interp"}, stack[n].previous)
  <2>1. CASE stack[n].kind = "interp"
    <3>1. IsLast(stack, n - 1, {"interp"}, stack[n].previous)
      BY <1>1, <2>1 DEF Interpreters, Chain
    <3> QED BY <3>1 DEF IsLast
  <2>2. CASE stack[n].kind # "interp"
    BY <1>1, <2>2 DEF Interpreters
  <2> QED BY <2>1, <2>2
<1> DEFINE before == [n \in 1..N |-> stack[n].previous]
           step == [a \in (1..N) \X Nat |->
                      IF stack[a[1]].program = p THEN stack[a[1]].invocation ELSE a[2]]
           Defines(g) == g = [s \in 0..Sp |->
                                IF s = 0 THEN 0
                                ELSE IF stack[s].program = p THEN stack[s].invocation
                                ELSE g[stack[s].previous]]
           at == CHOOSE g : Defines(g)
<1>4. Recursion(N, Nat, 0, before, step)
  <2>1. before \in [1..N -> Nat] /\ \A n \in 1..N : before[n] < n
    BY <1>3
  <2>2. step \in [(1..N) \X Nat -> Nat]
    BY <1>2
  <2> HIDE DEF before, step
  <2> QED BY <2>1, <2>2 DEF Recursion
<1>5. PICK g : Solves(g, N, Nat, 0, before, step)
  <2> HIDE DEF step, before
  <2> QED BY <1>4, RecursionExists
<1>6. /\ g \in [0..N -> Nat]
      /\ g[0] = 0
      /\ \A n \in 1..N : g[n] = step[<<n, g[stack[n].previous]>>]
  BY <1>5 DEF Solves
<1>7. ASSUME NEW n \in 1..N
      PROVE  g[n] = IF stack[n].program = p THEN stack[n].invocation ELSE g[stack[n].previous]
  <2>1. stack[n].previous \in 0..N
    BY <1>3
  <2>2. g[stack[n].previous] \in Nat
    BY <1>6, <2>1
  <2> QED BY <1>6, <2>2
<1>8. Defines(g)
  <2>1. Sp = N
    BY <1>1 DEF Sp
  <2> QED BY <1>6, <1>7, <2>1
<1>9. Defines(at)
  <2> HIDE DEF Defines
  <2> QED BY <1>8
<1>10. /\ at[0] = 0
       /\ \A n \in 1..N : at[n] = IF stack[n].program = p THEN stack[n].invocation
                                  ELSE at[stack[n].previous]
  <2>1. Sp = N
    BY <1>1 DEF Sp
  <2>2. \A f : Defines(f) => \A n \in 0..N :
                 f[n] = IF n = 0 THEN 0
                        ELSE IF stack[n].program = p THEN stack[n].invocation
                        ELSE f[stack[n].previous]
    BY <2>1
  <2>3. \A n \in 0..N : at[n] = IF n = 0 THEN 0
                                ELSE IF stack[n].program = p THEN stack[n].invocation
                                ELSE at[stack[n].previous]
    <3> HIDE DEF Defines, at
    <3> QED BY <1>9, <2>2
  <2> HIDE DEF at, Defines
  <2> QED BY <2>3
<1>11. find(p) = at[activation]
  BY DEF find
<1> HIDE DEF at
<1> DEFINE M == Mine(stack, p)
           Found(m) == /\ (\A i \in M : i > m) => at[m] = 0
                       /\ (\E i \in M : i <= m) => \E i \in M : at[m] = stack[i].invocation
           Done == {n \in 0..N : \A m \in 0..n : m = 0 \/ stack[m].kind = "interp" => Found(m)}
<1>12. M \subseteq 1..N /\ \A i \in M : stack[i].kind = "interp" /\ stack[i].program = p
  BY <1>1 DEF Mine
<1>13. 0 \in Done
  BY <1>10, <1>12
<1>14. ASSUME NEW n \in 0..(N - 1), n \in Done
       PROVE  n + 1 \in Done
  <2>1. ASSUME stack[n + 1].kind = "interp"
        PROVE  Found(n + 1)
    <3>1. n + 1 \in 1..N
      OBVIOUS
    <3>2. CASE stack[n + 1].program = p
      <4>1. n + 1 \in M /\ at[n + 1] = stack[n + 1].invocation
        BY <1>1, <1>10, <2>1, <3>1, <3>2 DEF Mine
      <4> QED BY <4>1
    <3>3. CASE stack[n + 1].program # p
      <4>1. PICK k \in 0..n : k = stack[n + 1].previous /\ IsLast(stack, n, {"interp"}, k)
        BY <1>3, <2>1, <3>1
      <4>2. at[n + 1] = at[k]
        BY <1>10, <3>1, <3>3, <4>1
      <4>3. k = 0 \/ stack[k].kind = "interp"
        BY <4>1 DEF IsLast
      <4>4. Found(k)
        BY <1>14, <4>1, <4>3
      <4>5. ASSUME NEW i \in M
            PROVE  i <= n + 1 <=> i <= k
        <5>1. i # n + 1
          BY <1>12, <3>3
        <5>2. i \notin (k + 1)..n
          BY <1>12, <4>1 DEF IsLast
        <5> QED BY <1>12, <5>1, <5>2
      <4>6. \A i \in M : i > n + 1 <=> i > k
        BY <1>12, <4>5
      <4> HIDE DEF M
      <4> QED BY <4>2, <4>4, <4>5, <4>6
    <3> QED BY <3>2, <3>3
  <2>2. \A m \in 0..(n + 1) : m \in 0..n \/ m = n + 1
    OBVIOUS
  <2>3. n + 1 \in 0..N /\ n + 1 # 0
    OBVIOUS
  <2> HIDE DEF Found
  <2> QED BY <1>14, <2>1, <2>2, <2>3
<1>15. N \in Done
  <2> HIDE DEF Done
  <2>1. 0..N \subseteq Done
    BY <1>13, <1>14, CountsUp
  <2> QED BY <2>1
<1>16. activation \in 0..N /\ IsLast(stack, N, {"interp"}, activation)
  BY <1>1 DEF Interpreters, Chain, IsLast
<1>17. Found(activation)
  <2>1. activation = 0 \/ stack[activation].kind = "interp"
    BY <1>16 DEF IsLast
  <2> QED BY <1>15, <1>16, <2>1
<1>18. \A i \in M : i <= activation
  BY <1>12, <1>16, LastUnique
<1>19. \A i \in M : stack[i].invocation \in Nat
  BY <1>2, <1>12
<1> HIDE DEF M
<1> QED BY <1>11, <1>17, <1>18, <1>19 DEF M

-----------------------------------------------------------------------------
(* How the actions change the stack.                                       *)

\* t is s with another activation on top.
Pushes(s, x, t) == Len(t) = Len(s) + 1 /\ t[Len(t)] = x /\ \A i \in 1..Len(s) : t[i] = s[i]

\* An activation put on the stack leaves the others alone.
LEMMA PushFacts ==
  ASSUME NEW s \in Stacks, NEW x \in Activation
  PROVE  Append(s, x) \in Stacks /\ Pushes(s, x, Append(s, x))
BY StackFacts DEF Stacks, Pushes

\* A gate puts two activations on the stack, one after the other.
LEMMA TwoPushes ==
  ASSUME NEW s \in Stacks, NEW x \in Activation, NEW y \in Activation
  PROVE  s \o <<x, y>> = Append(Append(s, x), y)
<1>1. <<x, y>> \in Stacks /\ s \o <<x, y>> \in Stacks
  BY ConcatProperties DEF Stacks
<1>2. Append(s, x) \in Stacks /\ Append(Append(s, x), y) \in Stacks
  BY PushFacts
<1>3. Len(s \o <<x, y>>) = Len(Append(Append(s, x), y))
  BY StackFacts, <1>1, <1>2, ConcatProperties DEF Stacks
<1>4. ASSUME NEW i \in 1..Len(s \o <<x, y>>)
      PROVE  (s \o <<x, y>>)[i] = Append(Append(s, x), y)[i]
  <2>1. Len(s) \in Nat /\ Len(<<x, y>>) = 2 /\ i \in 1..(Len(s) + 2)
    BY <1>1, <1>4, StackFacts, ConcatProperties DEF Stacks
  <2>2. (s \o <<x, y>>)[i] = IF i <= Len(s) THEN s[i] ELSE <<x, y>>[i - Len(s)]
    BY <1>1, <2>1, ConcatProperties DEF Stacks
  <2>3. i \in 1..Len(s) \/ i = Len(s) + 1 \/ i = Len(s) + 2
    BY <2>1
  <2>4. CASE i \in 1..Len(s)
    BY <2>1, <2>2, <2>4 DEF Stacks
  <2>5. CASE i = Len(s) + 1
    BY <2>1, <2>2, <2>5 DEF Stacks
  <2>6. CASE i = Len(s) + 2
    BY <2>1, <2>2, <2>6 DEF Stacks
  <2> QED BY <2>3, <2>4, <2>5, <2>6
<1> QED BY <1>1, <1>2, <1>3, <1>4, SeqEqual DEF Stacks

\* What is left of a stack is what was below.
LEMMA PopFacts ==
  ASSUME NEW s \in Stacks, NEW n \in 0..Len(s)
  PROVE  /\ SubSeq(s, 1, n) \in Stacks
         /\ Len(SubSeq(s, 1, n)) = n
         /\ \A i \in 1..n : SubSeq(s, 1, n)[i] = s[i]
<1>1. Len(s) \in Nat /\ n \in Nat /\ \A i \in 1..n : i \in 1..Len(s)
  BY StackFacts
<1>2. \A i \in 1..n : s[i] \in Activation
  BY <1>1, StackFacts
<1>3. /\ SubSeq(s, 1, n) \in Seq(Activation)
      /\ Len(SubSeq(s, 1, n)) = IF 1 <= n THEN n - 1 + 1 ELSE 0
      /\ \A i \in 1..(n - 1 + 1) : SubSeq(s, 1, n)[i] = s[1 + i - 1]
  BY <1>1, <1>2, SubSeqProperties
<1>4. n - 1 + 1 = n /\ \A i \in 1..n : 1 + i - 1 = i
  BY <1>1
<1> QED BY <1>1, <1>3, <1>4 DEF Stacks

\* Two pops are one after the other.
LEMMA TwoPops ==
  ASSUME NEW s \in Stacks, Len(s) > 2
  PROVE  SubSeq(s, 1, Len(s) - 2) = SubSeq(SubSeq(s, 1, Len(s) - 1), 1, Len(s) - 2)
<1>1. Len(s) \in Nat
  BY StackFacts
<1>2. PICK t : t = SubSeq(s, 1, Len(s) - 1)
  OBVIOUS
<1>3. t \in Stacks /\ Len(t) = Len(s) - 1 /\ \A i \in 1..(Len(s) - 1) : t[i] = s[i]
  BY <1>1, <1>2, PopFacts
<1>4. \A i \in 1..(Len(s) - 2) : i \in 1..(Len(s) - 1)
  BY <1>1
<1>5. /\ SubSeq(s, 1, Len(s) - 2) \in Stacks
      /\ Len(SubSeq(s, 1, Len(s) - 2)) = Len(s) - 2
      /\ \A i \in 1..(Len(s) - 2) : SubSeq(s, 1, Len(s) - 2)[i] = s[i]
  BY <1>1, PopFacts
<1>6. /\ SubSeq(t, 1, Len(s) - 2) \in Stacks
      /\ Len(SubSeq(t, 1, Len(s) - 2)) = Len(s) - 2
      /\ \A i \in 1..(Len(s) - 2) : SubSeq(t, 1, Len(s) - 2)[i] = t[i]
  BY <1>1, <1>3, PopFacts
<1>7. SubSeq(s, 1, Len(s) - 2) = SubSeq(t, 1, Len(s) - 2)
  BY <1>3, <1>4, <1>5, <1>6, SeqEqual DEF Stacks
<1> QED BY <1>2, <1>7

\* t is s with the error that its activation i is about to return.
Fails(s, i, e, t) == t = [s EXCEPT ![i].failing = e]

\* An error in progress changes one activation only.
LEMMA FailingFacts ==
  ASSUME NEW s \in Stacks, NEW i \in 1..Len(s), NEW e \in Nat, NEW t, Fails(s, i, e, t)
  PROVE  /\ t \in Stacks /\ Len(t) = Len(s)
         /\ \A j \in 1..Len(s) : j # i => t[j] = s[j]
         /\ t[i].failing = e /\ t[i].depth = s[i].depth
         /\ t[i].seen = s[i].seen /\ t[i].error = s[i].error
         /\ Alike(s[i], t[i])
<1>1. s[i] \in Activation
  BY StackFacts
<1>2. PICK x : x = [s[i] EXCEPT !.failing = e]
  OBVIOUS
<1>3. /\ x \in Activation
      /\ x.failing = e /\ x.depth = s[i].depth /\ x.seen = s[i].seen /\ x.error = s[i].error
      /\ Alike(s[i], x)
  BY <1>1, <1>2 DEF Activation, Alike
<1>4. t = [s EXCEPT ![i] = x]
  BY <1>2 DEF Fails
<1>5. t \in Stacks /\ Len(t) = Len(s) /\ \A j \in 1..Len(s) : t[j] = IF j = i THEN x ELSE s[j]
  BY <1>3, <1>4, ExceptSeq DEF Stacks
<1> QED BY <1>3, <1>5

\* t is s with another depth in its activation i.
Counts(s, i, d, t) == t = [s EXCEPT ![i].depth = d]

\* The count of calls changes one activation only.
LEMMA DepthFacts ==
  ASSUME NEW s \in Stacks, NEW i \in 1..Len(s), NEW d \in Nat, NEW t, Counts(s, i, d, t)
  PROVE  /\ t \in Stacks /\ Len(t) = Len(s)
         /\ \A j \in 1..Len(s) : j # i => t[j] = s[j]
         /\ t[i].failing = s[i].failing /\ t[i].depth = d
         /\ t[i].seen = s[i].seen /\ t[i].error = s[i].error
         /\ Alike(s[i], t[i])
<1>1. s[i] \in Activation
  BY StackFacts
<1>2. PICK x : x = [s[i] EXCEPT !.depth = d]
  OBVIOUS
<1>3. /\ x \in Activation
      /\ x.failing = s[i].failing /\ x.depth = d /\ x.seen = s[i].seen /\ x.error = s[i].error
      /\ Alike(s[i], x)
  BY <1>1, <1>2 DEF Activation, Alike
<1>4. t = [s EXCEPT ![i] = x]
  BY <1>2 DEF Counts
<1>5. t \in Stacks /\ Len(t) = Len(s) /\ \A j \in 1..Len(s) : t[j] = IF j = i THEN x ELSE s[j]
  BY <1>3, <1>4, ExceptSeq DEF Stacks
<1> QED BY <1>3, <1>5

\* report_execution_error changes what scopes have seen, and nothing else.
LEMMA ReportedFacts ==
  ASSUME NEW s \in Stacks, NEW e \in Nat
  PROVE  LET t == Reported(s, e)
         IN  /\ t \in Stacks /\ Len(t) = Len(s)
             /\ \A i \in 1..Len(s) :
                  /\ Alike(s[i], t[i])
                  /\ t[i].depth = s[i].depth /\ t[i].failing = s[i].failing
                  /\ t[i].error = IF i = scope /\ s[i].error = 0 THEN e ELSE s[i].error
                  /\ t[i].seen = IF i = InnermostScope(s) THEN s[i].seen \cup {e} ELSE s[i].seen
<1>1. Len(s) \in Nat /\ DOMAIN s = 1..Len(s) /\ \A i \in 1..Len(s) : s[i] \in Activation
  BY StackFacts
<1>2. PICK k : k = InnermostScope(s)
  OBVIOUS
<1> DEFINE x(i) == [s[i] EXCEPT !.error = IF i = scope /\ @ = 0 THEN e ELSE @,
                                !.seen = IF i = k THEN @ \cup {e} ELSE @]
<1>3. Reported(s, e) = [i \in 1..Len(s) |-> x(i)]
  BY <1>1, <1>2 DEF Reported
<1>4. ASSUME NEW i \in 1..Len(s)
      PROVE  /\ x(i) \in Activation
             /\ Alike(s[i], x(i))
             /\ x(i).depth = s[i].depth /\ x(i).failing = s[i].failing
             /\ x(i).error = IF i = scope /\ s[i].error = 0 THEN e ELSE s[i].error
             /\ x(i).seen = IF i = k THEN s[i].seen \cup {e} ELSE s[i].seen
  <2>1. s[i] \in Activation
    BY <1>1
  <2> QED BY <2>1 DEF Activation, Alike
<1> HIDE DEF x
<1>5. [i \in 1..Len(s) |-> x(i)] \in Seq(Activation)
  <2>1. PICK n \in Nat : n = Len(s)
    BY <1>1
  <2>2. \A i \in 1..n : x(i) \in Activation
    BY <1>4, <2>1
  <2>3. [i \in 1..n |-> x(i)] \in Seq(Activation)
    BY <2>2
  <2> QED BY <2>1, <2>3
<1>6. Len([i \in 1..Len(s) |-> x(i)]) = Len(s)
  BY <1>1
<1> QED BY <1>2, <1>3, <1>4, <1>5, <1>6 DEF Stacks

-----------------------------------------------------------------------------
(* All pointers of the thread.                                             *)

At(frames, D) == [d \in 1..D |-> frames[d].sp]
Back(frames, D) == [d \in 1..D |-> frames[d].previous]
Outer(s) == [i \in 1..Len(s) |-> s[i].outer]

\* The checkpoint c, D raw frames, the scope and the interpreter of a thread with
\* this stack.
Pointers(s, frames, D, c, sc, a) ==
  /\ Checkpoints(s, At(frames, D), Back(frames, D), c)
  /\ Chain(s, {"invoke", "scope"}, Outer(s), sc)
  /\ Interpreters(s, a)
  /\ Budget(s)

\* t holds the activations of s up to n, with their depths.
Same(s, t, n) == Agree(s, t, n) /\ \A i \in 1..n : s[i].depth = t[i].depth

\* The chain of interpreters is untouched by calls that start none.
LEMMA InterpretersKeep ==
  ASSUME NEW s \in Stacks, NEW t \in Stacks, Agree(s, t, Len(s)),
         \/ Len(t) = Len(s)
         \/ Len(t) = Len(s) + 1 /\ t[Len(s) + 1].kind # "interp" /\ t[Len(s) + 1].previous = 0,
         NEW a, Interpreters(s, a)
  PROVE  Interpreters(t, a)
<1>1. Len(s) \in Nat /\ Len(t) \in Nat
  BY StackFacts
<1>2. \A i \in 1..Len(s) : /\ i \in 1..Len(t)
                           /\ s[i].kind = t[i].kind /\ s[i].previous = t[i].previous
  BY <1>1 DEF Agree, Alike
<1> DEFINE link == [j \in 1..Len(s) |-> s[j].previous]
           to == [j \in 1..Len(t) |-> t[j].previous]
<1>3. Chain(t, {"interp"}, to, a)
  <2>1. \/ Len(t) = Len(s)
        \/ Len(t) = Len(s) + 1 /\ t[Len(s) + 1].kind \notin {"interp"}
    OBVIOUS
  <2>2. \A i \in 1..Len(s) : link[i] = to[i]
    BY <1>2
  <2>3. Chain(s, {"interp"}, link, a)
    BY DEF Interpreters
  <2> HIDE DEF link, to
  <2> QED BY <2>1, <2>2, <2>3, ChainKeep
<1>4. \A i \in 1..Len(t) : i \in 1..Len(s) \/ (i = Len(s) + 1 /\ Len(t) = Len(s) + 1)
  BY <1>1
<1>5. \A i \in 1..Len(s) : s[i].kind # "interp" => s[i].previous = 0
  BY DEF Interpreters
<1>6. \A i \in 1..Len(t) : t[i].kind # "interp" => t[i].previous = 0
  BY <1>2, <1>4, <1>5
<1> QED BY <1>3, <1>6 DEF Interpreters

\* Ending an interpreter makes the one it called from current again.
LEMMA InterpretersPop ==
  ASSUME NEW s \in Stacks, NEW t \in Stacks, Len(s) = Len(t) + 1, Agree(s, t, Len(t)),
         NEW a, Interpreters(s, a)
  PROVE  Interpreters(t, IF s[Len(s)].kind = "interp" THEN s[Len(s)].previous ELSE a)
<1>1. Len(s) \in Nat /\ Len(t) \in Nat /\ Len(s) \in 1..Len(s)
  BY StackFacts
<1>2. \A i \in 1..Len(t) : /\ i \in 1..Len(s)
                           /\ s[i].kind = t[i].kind /\ s[i].previous = t[i].previous
  BY <1>1 DEF Agree, Alike
<1> DEFINE link == [j \in 1..Len(s) |-> s[j].previous]
           to == [j \in 1..Len(t) |-> t[j].previous]
<1>3. \A i \in 1..Len(t) : link[i] = to[i]
  BY <1>2
<1>4. Chain(s, {"interp"}, link, a) /\ link[Len(s)] = s[Len(s)].previous
  BY <1>1 DEF Interpreters
<1>5. Chain(t, {"interp"}, to, IF s[Len(s)].kind \in {"interp"} THEN link[Len(s)] ELSE a)
  <2> HIDE DEF link, to
  <2> QED BY <1>3, <1>4, ChainPop
<1>6. \A i \in 1..Len(s) : s[i].kind # "interp" => s[i].previous = 0
  BY DEF Interpreters
<1>7. \A i \in 1..Len(t) : t[i].kind # "interp" => t[i].previous = 0
  BY <1>2, <1>6
<1> QED BY <1>4, <1>5, <1>7 DEF Interpreters

\* What is outside an activation depends only on what is below.
LEMMA OuterKept ==
  ASSUME NEW s \in Stacks, NEW t \in Stacks, NEW n \in Nat, n <= Len(s), n <= Len(t),
         Agree(s, t, n)
  PROVE  \A i \in 1..n : Outer(s)[i] = Outer(t)[i]
<1>1. \A i \in 1..n : i \in 1..Len(s) /\ i \in 1..Len(t)
  BY StackFacts
<1> QED BY <1>1 DEF Outer, Agree, Alike

\* Errors and results do not matter, and neither does a host or native frame.
LEMMA PointersKeep ==
  ASSUME NEW s \in Stacks, NEW t \in Stacks, Same(s, t, Len(s)),
         \/ Len(t) = Len(s)
         \/ Len(t) = Len(s) + 1 /\ t[Len(t)].kind \in {"host", "native"} /\ t[Len(t)].previous = 0,
         NEW frames, NEW D, NEW c, NEW sc, NEW a, Pointers(s, frames, D, c, sc, a)
  PROVE  Pointers(t, frames, D, c, sc, a)
<1>1. Len(s) \in Nat /\ Len(t) \in Nat /\ Agree(s, t, Len(s))
  BY StackFacts DEF Same
<1>2. /\ Checkpoints(s, At(frames, D), Back(frames, D), c)
      /\ Chain(s, {"invoke", "scope"}, Outer(s), sc)
      /\ Interpreters(s, a) /\ Budget(s)
  BY DEF Pointers
<1>3. \/ Len(t) = Len(s)
      \/ /\ Len(t) = Len(s) + 1 /\ t[Len(s) + 1].previous = 0
         /\ t[Len(s) + 1].kind \notin {"invoke", "raw"}
         /\ t[Len(s) + 1].kind \notin {"invoke", "scope"}
         /\ t[Len(s) + 1].kind # "interp"
  OBVIOUS
<1>4. Checkpoints(t, At(frames, D), Back(frames, D), c)
  BY <1>1, <1>2, <1>3, CheckpointsKeep
<1>5. Chain(t, {"invoke", "scope"}, Outer(t), sc)
  <2>1. \A i \in 1..Len(s) : Outer(s)[i] = Outer(t)[i]
    BY <1>1, <1>3, OuterKept
  <2> QED BY <1>1, <1>2, <1>3, <2>1, ChainKeep
<1>6. Interpreters(t, a)
  BY <1>1, <1>2, <1>3, InterpretersKeep
<1>7. Budget(t)
  <2>1. \A i \in 1..Len(s) : i \in 1..Len(t) => s[i].depth = t[i].depth
    BY DEF Same
  <2> QED BY <1>1, <1>2, <1>3, <2>1, BudgetKeep
<1> QED BY <1>4, <1>5, <1>6, <1>7 DEF Pointers

\* A native call that cannot recover.
LEMMA PointersScope ==
  ASSUME NEW s \in Stacks, NEW t \in Stacks, Same(s, t, Len(s)), Len(t) = Len(s) + 1,
         NEW frames, NEW D, NEW c, NEW sc, NEW a, Pointers(s, frames, D, c, sc, a),
         t[Len(t)].kind = "scope", t[Len(t)].outer = sc, t[Len(t)].previous = 0
  PROVE  Pointers(t, frames, D, c, Len(t), a)
<1>1. Len(s) \in Nat /\ Len(t) \in Nat /\ Agree(s, t, Len(s))
  BY StackFacts DEF Same
<1>2. /\ Checkpoints(s, At(frames, D), Back(frames, D), c)
      /\ Chain(s, {"invoke", "scope"}, Outer(s), sc)
      /\ Interpreters(s, a) /\ Budget(s)
  BY DEF Pointers
<1>3. Checkpoints(t, At(frames, D), Back(frames, D), c)
  <2>1. t[Len(s) + 1].kind \notin {"invoke", "raw"}
    OBVIOUS
  <2> QED BY <1>1, <1>2, <2>1, CheckpointsKeep
<1>4. Chain(t, {"invoke", "scope"}, Outer(t), Len(t))
  <2>1. \A i \in 1..Len(s) : Outer(s)[i] = Outer(t)[i]
    BY <1>1, OuterKept
  <2>2. Outer(t)[Len(t)] = sc
    BY <1>1 DEF Outer
  <2> QED BY <1>1, <1>2, <2>1, <2>2, ChainPush
<1>5. Interpreters(t, a)
  BY <1>1, <1>2, InterpretersKeep
<1>6. Budget(t)
  <2>1. \A i \in 1..Len(s) : i \in 1..Len(t) => s[i].depth = t[i].depth
    BY DEF Same
  <2> QED BY <1>1, <1>2, <2>1, BudgetKeep
<1> QED BY <1>3, <1>4, <1>5, <1>6 DEF Pointers

\* NativeRecovery::invoke.
LEMMA PointersInvoke ==
  ASSUME NEW s \in Stacks, NEW t \in Stacks, Same(s, t, Len(s)), Len(t) = Len(s) + 1,
         NEW frames, NEW D, NEW c, NEW sc, NEW a, Pointers(s, frames, D, c, sc, a),
         t[Len(t)].kind = "invoke", t[Len(t)].checkpoint = c, t[Len(t)].outer = sc,
         t[Len(t)].previous = 0
  PROVE  Pointers(t, frames, D, <<"invoke", Len(t)>>, Len(t), a)
<1>1. Len(s) \in Nat /\ Len(t) \in Nat /\ Agree(s, t, Len(s))
  BY StackFacts DEF Same
<1>2. /\ Checkpoints(s, At(frames, D), Back(frames, D), c)
      /\ Chain(s, {"invoke", "scope"}, Outer(s), sc)
      /\ Interpreters(s, a) /\ Budget(s)
  BY DEF Pointers
<1>3. Checkpoints(t, At(frames, D), Back(frames, D), <<"invoke", Len(t)>>)
  BY <1>1, <1>2, CheckpointsInvoke
<1>4. Chain(t, {"invoke", "scope"}, Outer(t), Len(t))
  <2>1. \A i \in 1..Len(s) : Outer(s)[i] = Outer(t)[i]
    BY <1>1, OuterKept
  <2>2. Outer(t)[Len(t)] = sc
    BY <1>1 DEF Outer
  <2> QED BY <1>1, <1>2, <2>1, <2>2, ChainPush
<1>5. Interpreters(t, a)
  BY <1>1, <1>2, InterpretersKeep
<1>6. Budget(t)
  <2>1. \A i \in 1..Len(s) : i \in 1..Len(t) => s[i].depth = t[i].depth
    BY DEF Same
  <2> QED BY <1>1, <1>2, <2>1, BudgetKeep
<1> QED BY <1>3, <1>4, <1>5, <1>6 DEF Pointers

\* The raw frame after the first D has been filled, and those are as before.
Fills(frames, D, filled, sp, c) ==
  /\ \A d \in 1..D : filled[d] = frames[d]
  /\ filled[D + 1] = [sp |-> sp, previous |-> c]

\* NativeBoundary::enter.
LEMMA PointersEnter ==
  ASSUME NEW s \in Stacks, NEW t \in Stacks, Same(s, t, Len(s)), Len(t) = Len(s) + 1,
         NEW frames, NEW D \in Nat, NEW c, NEW sc, NEW a, Pointers(s, frames, D, c, sc, a),
         t[Len(t)].kind = "raw", t[Len(t)].previous = 0,
         NEW filled, Fills(frames, D, filled, Len(t), c)
  PROVE  Pointers(t, filled, D + 1, <<"raw", D + 1>>, sc, a)
<1> USE DEF Fills
<1>1. Len(s) \in Nat /\ Len(t) \in Nat /\ Agree(s, t, Len(s))
  BY StackFacts DEF Same
<1>2. /\ Checkpoints(s, At(frames, D), Back(frames, D), c)
      /\ Chain(s, {"invoke", "scope"}, Outer(s), sc)
      /\ Interpreters(s, a) /\ Budget(s)
  BY DEF Pointers
<1>3. Checkpoints(t, At(filled, D + 1), Back(filled, D + 1), <<"raw", D + 1>>)
  <2>1. /\ DOMAIN At(frames, D) = 1..D
        /\ DOMAIN At(filled, D + 1) = 1..(D + 1)
        /\ \A d \in 1..D : At(filled, D + 1)[d] = At(frames, D)[d]
        /\ At(filled, D + 1)[D + 1] = Len(t)
    BY DEF At
  <2>2. /\ \A d \in 1..D : Back(filled, D + 1)[d] = Back(frames, D)[d]
        /\ Back(filled, D + 1)[D + 1] = c
    BY DEF Back
  <2> QED BY <1>1, <1>2, <2>1, <2>2, CheckpointsEnter, SMTT(30)
<1>4. Chain(t, {"invoke", "scope"}, Outer(t), sc)
  <2>1. \A i \in 1..Len(s) : Outer(s)[i] = Outer(t)[i]
    BY <1>1, OuterKept
  <2>2. t[Len(s) + 1].kind \notin {"invoke", "scope"}
    OBVIOUS
  <2> QED BY <1>1, <1>2, <2>1, <2>2, ChainKeep
<1>5. Interpreters(t, a)
  BY <1>1, <1>2, InterpretersKeep
<1>6. Budget(t)
  <2>1. \A i \in 1..Len(s) : i \in 1..Len(t) => s[i].depth = t[i].depth
    BY DEF Same
  <2> QED BY <1>1, <1>2, <2>1, BudgetKeep
<1> QED BY <1>3, <1>4, <1>5, <1>6 DEF Pointers

\* InterpreterInvocation::invoke on top, with the depth of its invocation counted.
LEMMA PointersInterp ==
  ASSUME NEW s \in Stacks, NEW t \in Stacks, NEW p \in Programs, NEW owner,
         Joins(s, t, p, owner),
         NEW frames, NEW D, NEW c, NEW sc, NEW a, Pointers(s, frames, D, c, sc, a),
         t[Len(t)].previous = a
  PROVE  Pointers(t, frames, D, c, sc, Len(t))
<1>1. /\ Len(s) \in Nat /\ Len(t) \in Nat
      /\ Agree(s, t, Len(s)) /\ Len(t) = Len(s) + 1
      /\ t[Len(t)].kind = "interp"
  BY StackFacts DEF Joins
<1>2. /\ Checkpoints(s, At(frames, D), Back(frames, D), c)
      /\ Chain(s, {"invoke", "scope"}, Outer(s), sc)
      /\ Interpreters(s, a) /\ Budget(s)
  BY DEF Pointers
<1>3. Checkpoints(t, At(frames, D), Back(frames, D), c)
  <2>1. t[Len(s) + 1].kind \notin {"invoke", "raw"}
    BY <1>1
  <2> QED BY <1>1, <1>2, <2>1, CheckpointsKeep
<1>4. Chain(t, {"invoke", "scope"}, Outer(t), sc)
  <2>1. \A i \in 1..Len(s) : Outer(s)[i] = Outer(t)[i]
    BY <1>1, OuterKept
  <2>2. t[Len(s) + 1].kind \notin {"invoke", "scope"}
    BY <1>1
  <2> QED BY <1>1, <1>2, <2>1, <2>2, ChainKeep
<1>5. Interpreters(t, Len(t))
  <2> DEFINE link == [j \in 1..Len(s) |-> s[j].previous]
             to == [j \in 1..Len(t) |-> t[j].previous]
  <2>1. \A i \in 1..Len(s) : /\ i \in 1..Len(t)
                             /\ s[i].kind = t[i].kind /\ s[i].previous = t[i].previous
    BY <1>1 DEF Agree, Alike
  <2>2. (\A i \in 1..Len(s) : link[i] = to[i]) /\ to[Len(t)] = a
    BY <1>1, <2>1
  <2>3. Chain(s, {"interp"}, link, a)
    BY <1>2 DEF Interpreters
  <2>4. Chain(t, {"interp"}, to, Len(t))
    <3> HIDE DEF link, to
    <3>1. t[Len(t)].kind \in {"interp"}
      BY <1>1
    <3> QED BY <1>1, <2>2, <2>3, <3>1, ChainPush
  <2>5. \A i \in 1..Len(t) : i \in 1..Len(s) \/ i = Len(t)
    BY <1>1
  <2>6. \A i \in 1..Len(s) : s[i].kind # "interp" => s[i].previous = 0
    BY <1>2 DEF Interpreters
  <2>7. \A i \in 1..Len(t) : t[i].kind # "interp" => t[i].previous = 0
    BY <1>1, <2>1, <2>5, <2>6
  <2> QED BY <2>4, <2>7 DEF Interpreters
<1>6. Budget(t)
  BY <1>2, BudgetPush
<1> QED BY <1>3, <1>4, <1>5, <1>6 DEF Pointers

\* What the pointers are when the innermost activation of s has ended; a raw frame
\* is for PointersLeave, an interpreter for PointersReturn.
LEMMA PointersPop ==
  ASSUME NEW s \in Stacks, NEW t \in Stacks, Len(s) = Len(t) + 1, Same(s, t, Len(t)),
         s[Len(s)].kind \notin {"raw", "interp"},
         NEW frames, NEW D, NEW c, NEW sc, NEW a, Pointers(s, frames, D, c, sc, a)
  PROVE  Pointers(t, frames, D,
                  IF s[Len(s)].kind = "invoke" THEN s[Len(s)].checkpoint ELSE c,
                  IF s[Len(s)].kind \in {"invoke", "scope"} THEN s[Len(s)].outer ELSE sc, a)
<1>1. Len(s) \in Nat /\ Len(t) \in Nat /\ Agree(s, t, Len(t)) /\ Len(s) \in 1..Len(s)
  BY StackFacts DEF Same
<1>2. /\ Checkpoints(s, At(frames, D), Back(frames, D), c)
      /\ Chain(s, {"invoke", "scope"}, Outer(s), sc)
      /\ Interpreters(s, a) /\ Budget(s)
  BY DEF Pointers
<1>3. Checkpoints(t, At(frames, D), Back(frames, D),
                  IF s[Len(s)].kind = "invoke" THEN s[Len(s)].checkpoint ELSE c)
  <2>1. CASE s[Len(s)].kind = "invoke"
    BY <1>1, <1>2, <2>1, CheckpointsReturn
  <2>2. CASE s[Len(s)].kind # "invoke"
    <3>1. s[Len(s)].kind \notin {"invoke", "raw"}
      BY <2>2
    <3> QED BY <1>1, <1>2, <2>2, <3>1, CheckpointsPop
  <2> QED BY <2>1, <2>2
<1>4. Chain(t, {"invoke", "scope"}, Outer(t),
            IF s[Len(s)].kind \in {"invoke", "scope"} THEN s[Len(s)].outer ELSE sc)
  <2>1. \A i \in 1..Len(t) : Outer(s)[i] = Outer(t)[i]
    BY <1>1, OuterKept
  <2>2. Outer(s)[Len(s)] = s[Len(s)].outer
    BY <1>1 DEF Outer
  <2> QED BY <1>1, <1>2, <2>1, <2>2, ChainPop
<1>5. Interpreters(t, a)
  BY <1>1, <1>2, InterpretersPop
<1>6. Budget(t)
  <2>1. \A i \in 1..Len(s) : i \in 1..Len(t) => s[i].depth = t[i].depth
    BY DEF Same
  <2> QED BY <1>1, <1>2, <2>1, BudgetKeep
<1> QED BY <1>3, <1>4, <1>5, <1>6 DEF Pointers

\* NativeBoundary::leave finds its own checkpoint and restores the one before.
LEMMA PointersLeave ==
  ASSUME NEW s \in Stacks, NEW t \in Stacks, Len(s) = Len(t) + 1, Same(s, t, Len(t)),
         s[Len(s)].kind = "raw",
         NEW frames, NEW D \in Nat, NEW c, NEW sc, NEW a, Pointers(s, frames, D, c, sc, a)
  PROVE  /\ D > 0 /\ c = <<"raw", D>> /\ frames[D].sp = Len(s)
         /\ Pointers(t, frames, D - 1, frames[D].previous, sc, a)
<1>1. Len(s) \in Nat /\ Len(t) \in Nat /\ Agree(s, t, Len(t)) /\ Len(s) \in 1..Len(s)
  BY StackFacts DEF Same
<1>2. /\ Checkpoints(s, At(frames, D), Back(frames, D), c)
      /\ Chain(s, {"invoke", "scope"}, Outer(s), sc)
      /\ Interpreters(s, a) /\ Budget(s)
  BY DEF Pointers
<1>3. /\ D # 0 /\ c = <<"raw", D>> /\ At(frames, D)[D] = Len(s)
      /\ Checkpoints(t, At(frames, D - 1), Back(frames, D - 1), Back(frames, D)[D])
  <2>1. Releases(D, At(frames, D), Back(frames, D), At(frames, D - 1), Back(frames, D - 1))
    BY DEF Releases, At, Back
  <2> QED BY <1>1, <1>2, <2>1, CheckpointsLeave
<1>4. D > 0 /\ At(frames, D)[D] = frames[D].sp /\ Back(frames, D)[D] = frames[D].previous
  <2>1. D > 0 /\ D \in 1..D
    BY <1>3
  <2> QED BY <2>1 DEF At, Back
<1>5. Chain(t, {"invoke", "scope"}, Outer(t), sc)
  <2>1. \A i \in 1..Len(t) : Outer(s)[i] = Outer(t)[i]
    BY <1>1, OuterKept
  <2>2. s[Len(s)].kind \notin {"invoke", "scope"}
    OBVIOUS
  <2> QED BY <1>1, <1>2, <2>1, <2>2, ChainPop
<1>6. Interpreters(t, a)
  BY <1>1, <1>2, InterpretersPop
<1>7. Budget(t)
  <2>1. \A i \in 1..Len(s) : i \in 1..Len(t) => s[i].depth = t[i].depth
    BY DEF Same
  <2> QED BY <1>1, <1>2, <2>1, BudgetKeep
<1> QED BY <1>3, <1>4, <1>5, <1>6, <1>7 DEF Pointers

\* InterpreterInvocation::invoke returns; its invocation's depth has been counted down.
LEMMA PointersReturn ==
  ASSUME NEW s \in Stacks, NEW t \in Stacks, NEW p \in Programs, NEW owner,
         Quits(s, t, p, owner),
         NEW frames, NEW D, NEW c, NEW sc, NEW a, Pointers(s, frames, D, c, sc, a)
  PROVE  Pointers(t, frames, D, c, sc, s[Len(s)].previous)
<1>1. /\ Len(s) \in Nat /\ Len(t) \in Nat /\ Len(s) \in 1..Len(s)
      /\ Len(s) = Len(t) + 1 /\ Agree(s, t, Len(t)) /\ s[Len(s)].kind = "interp"
  BY StackFacts DEF Quits
<1>2. /\ Checkpoints(s, At(frames, D), Back(frames, D), c)
      /\ Chain(s, {"invoke", "scope"}, Outer(s), sc)
      /\ Interpreters(s, a) /\ Budget(s)
  BY DEF Pointers
<1>3. Checkpoints(t, At(frames, D), Back(frames, D), c)
  <2>1. s[Len(s)].kind \notin {"invoke", "raw"}
    BY <1>1
  <2> QED BY <1>1, <1>2, <2>1, CheckpointsPop
<1>4. Chain(t, {"invoke", "scope"}, Outer(t), sc)
  <2>1. \A i \in 1..Len(t) : Outer(s)[i] = Outer(t)[i]
    BY <1>1, OuterKept
  <2>2. s[Len(s)].kind \notin {"invoke", "scope"}
    BY <1>1
  <2> QED BY <1>1, <1>2, <2>1, <2>2, ChainPop
<1>5. Interpreters(t, s[Len(s)].previous)
  BY <1>1, <1>2, InterpretersPop
<1>6. Budget(t)
  BY <1>2, BudgetPop
<1> QED BY <1>3, <1>4, <1>5, <1>6 DEF Pointers

-----------------------------------------------------------------------------
(* Errors.                                                                 *)

\* No activation is about to return an error.
Quiet(s) == \A i \in 1..Len(s) : s[i].failing = 0

\* All that scopes have seen came before e.
Later(s, e) == \A i \in 1..Len(s) : \A x \in s[i].seen : x < e

\* The errors that scopes have seen, the first of which each has kept.
Seen(s, n) ==
  /\ \A i \in 1..Len(s) :
       /\ s[i].seen \subseteq 1..n
       /\ s[i].seen # {} => s[i].kind \in {"invoke", "scope"}
       /\ IF s[i].seen = {} THEN s[i].error = 0
          ELSE s[i].error \in s[i].seen /\ \A x \in s[i].seen : s[i].error <= x
  /\ \A i, j \in 1..Len(s) : i < j => \A x \in s[i].seen, y \in s[j].seen : x < y

\* And the error on its way, if any.
Errors(s, n) ==
  /\ Seen(s, n)
  /\ \A i \in 1..Len(s) : s[i].failing # 0 =>
       i = Len(s) /\ s[i].kind = "interp" /\ s[i].failing \in 1..n /\ Later(s, s[i].failing)

\* t holds what s has of errors, up to k.
Notes(s, t, k) ==
  \A i \in 1..k : /\ t[i].kind = s[i].kind /\ t[i].seen = s[i].seen
                  /\ t[i].error = s[i].error /\ t[i].failing = s[i].failing

\* Errors raised since do not matter, and neither does an activation that ends.
LEMMA SeenPop ==
  ASSUME NEW s \in Stacks, NEW t \in Stacks, Len(t) <= Len(s), Notes(s, t, Len(t)),
         NEW n \in Nat, NEW m \in Nat, n <= m, Seen(s, n)
  PROVE  Seen(t, m)
<1>1. Len(s) \in Nat /\ Len(t) \in Nat /\ \A i \in 1..Len(t) : i \in 1..Len(s)
  BY StackFacts
<1>2. 1..n \subseteq 1..m
  OBVIOUS
<1> QED BY <1>1, <1>2 DEF Seen, Notes

\* What the activations that are left have seen still came before e.
LEMMA LaterPop ==
  ASSUME NEW s \in Stacks, NEW t \in Stacks, Len(t) <= Len(s), Notes(s, t, Len(t)),
         NEW e, Later(s, e)
  PROVE  Later(t, e)
<1>1. Len(s) \in Nat /\ Len(t) \in Nat /\ \A i \in 1..Len(t) : i \in 1..Len(s)
  BY StackFacts
<1> QED BY <1>1 DEF Later, Notes

\* A new activation has seen no error.
LEMMA SeenPush ==
  ASSUME NEW s \in Stacks, NEW t \in Stacks, Len(t) = Len(s) + 1, Notes(s, t, Len(s)),
         t[Len(t)].seen = {}, t[Len(t)].error = 0,
         NEW n, Seen(s, n)
  PROVE  Seen(t, n)
<1>1. Len(s) \in Nat /\ Len(t) \in Nat /\ \A i \in 1..Len(t) : i \in 1..Len(s) \/ i = Len(t)
  BY StackFacts
<1>2. \A i \in 1..Len(t) :
        /\ t[i].seen \subseteq 1..n
        /\ t[i].seen # {} => t[i].kind \in {"invoke", "scope"}
        /\ IF t[i].seen = {} THEN t[i].error = 0
           ELSE t[i].error \in t[i].seen /\ \A x \in t[i].seen : t[i].error <= x
  BY <1>1 DEF Seen, Notes
<1>3. ASSUME NEW i \in 1..Len(t), NEW j \in 1..Len(t), i < j
      PROVE  \A x \in t[i].seen, y \in t[j].seen : x < y
  <2>1. CASE i \in 1..Len(s) /\ j \in 1..Len(s)
    BY <1>3, <2>1 DEF Seen, Notes
  <2>2. CASE i = Len(t) \/ j = Len(t)
    BY <2>2
  <2> QED BY <1>1, <2>1, <2>2
<1> QED BY <1>2, <1>3 DEF Seen

\* A call starts without an error.
LEMMA ErrorsPush ==
  ASSUME NEW s \in Stacks, NEW t \in Stacks, Len(t) = Len(s) + 1, Notes(s, t, Len(s)),
         t[Len(t)].seen = {}, t[Len(t)].error = 0, t[Len(t)].failing = 0,
         NEW n, Errors(s, n), Quiet(s)
  PROVE  Errors(t, n) /\ Quiet(t)
<1>1. Len(s) \in Nat /\ Len(t) \in Nat /\ \A i \in 1..Len(t) : i \in 1..Len(s) \/ i = Len(t)
  BY StackFacts
<1>2. Seen(t, n)
  BY SeenPush DEF Errors
<1>3. Quiet(t)
  BY <1>1 DEF Quiet, Notes
<1> QED BY <1>2, <1>3 DEF Errors, Quiet

\* Activations end without an error.
LEMMA ErrorsPop ==
  ASSUME NEW s \in Stacks, NEW t \in Stacks, Len(t) < Len(s), Notes(s, t, Len(t)),
         NEW n \in Nat, NEW m \in Nat, n <= m, Errors(s, n)
  PROVE  Errors(t, m) /\ Quiet(t)
<1>1. Len(s) \in Nat /\ Len(t) \in Nat /\ \A i \in 1..Len(t) : i \in 1..Len(s) /\ i # Len(s)
  BY StackFacts
<1>2. Seen(t, m)
  BY <1>1, SeenPop DEF Errors
<1>3. Quiet(t)
  BY <1>1 DEF Quiet, Notes, Errors
<1> QED BY <1>2, <1>3 DEF Errors, Quiet

\* An interpreter on top learns of an error that is later than what scopes have seen.
LEMMA ErrorsFail ==
  ASSUME NEW s \in Stacks, NEW t \in Stacks, Len(t) = Len(s), Len(s) # 0,
         \A i \in 1..Len(s) : /\ t[i].kind = s[i].kind /\ t[i].seen = s[i].seen
                              /\ t[i].error = s[i].error
                              /\ i # Len(s) => t[i].failing = s[i].failing,
         NEW n \in Nat, NEW m \in Nat, n <= m, Seen(s, n), Quiet(s),
         t[Len(s)].failing # 0 => /\ s[Len(s)].kind = "interp"
                                  /\ t[Len(s)].failing \in 1..m
                                  /\ Later(s, t[Len(s)].failing)
  PROVE  Errors(t, m)
<1>1. 1..n \subseteq 1..m
  OBVIOUS
<1>2. Seen(t, m)
  BY <1>1 DEF Seen
<1>3. \A i \in 1..Len(t) : t[i].failing # 0 => i = Len(t)
  BY DEF Quiet
<1>4. \A e : Later(s, e) => Later(t, e)
  BY DEF Later
<1> QED BY <1>2, <1>3, <1>4 DEF Errors

\* A new error is later than all before.
LEMMA NewIsLater ==
  ASSUME NEW s \in Stacks, NEW n \in Nat, Seen(s, n)
  PROVE  Later(s, n + 1)
<1>1. \A i \in 1..Len(s) : s[i].seen \subseteq 1..n
  BY DEF Seen
<1> QED BY <1>1 DEF Later

\* The scope the thread points to is the one where an error is seen.
LEMMA ScopeInnermost ==
  ASSUME NEW s \in Stacks, NEW k, IsLast(s, Len(s), {"invoke", "scope"}, k)
  PROVE  InnermostScope(s) = k
<1>1. DOMAIN s = 1..Len(s) /\ Len(s) \in Nat
  BY StackFacts
<1> DEFINE scopes == {i \in DOMAIN s : s[i].kind \in {"invoke", "scope"}}
<1>2. CASE k = 0
  <2>1. scopes = {}
    BY <1>1, <1>2, LastUnique
  <2> QED BY <1>2, <2>1 DEF InnermostScope
<1>3. CASE k # 0
  <2>1. k \in 1..Len(s) /\ k \in scopes
    BY <1>1, <1>3 DEF IsLast
  <2>2. \A i \in scopes : i \in 1..Len(s) /\ i <= k
    BY <1>1, LastUnique
  <2>3. \A i \in scopes : (\A j \in scopes : j <= i) => i = k
    BY <1>1, <2>1, <2>2
  <2>4. InnermostScope(s) = CHOOSE i \in scopes : \A j \in scopes : j <= i
    BY <2>1 DEF InnermostScope
  <2> QED BY <2>1, <2>2, <2>3, <2>4
<1> QED BY <1>2, <1>3

\* report_execution_error keeps the first error.
LEMMA ErrorsReported ==
  ASSUME NEW s \in Stacks, IsLast(s, Len(s), {"invoke", "scope"}, scope),
         NEW n \in Nat, NEW m \in Nat, n <= m, Seen(s, n), Quiet(s),
         NEW e \in 1..m, Later(s, e)
  PROVE  Errors(Reported(s, e), m) /\ Quiet(Reported(s, e))
<1>1. Len(s) \in Nat /\ InnermostScope(s) = scope
  BY StackFacts, ScopeInnermost
<1>2. PICK t : t = Reported(s, e)
  OBVIOUS
<1>3. /\ t \in Stacks /\ Len(t) = Len(s)
      /\ \A i \in 1..Len(s) :
           /\ t[i].kind = s[i].kind
           /\ t[i].failing = s[i].failing
           /\ t[i].error = IF i = scope /\ s[i].error = 0 THEN e ELSE s[i].error
           /\ t[i].seen = IF i = scope THEN s[i].seen \cup {e} ELSE s[i].seen
  <2>1. e \in Nat
    OBVIOUS
  <2>2. /\ t \in Stacks /\ Len(t) = Len(s)
        /\ \A i \in 1..Len(s) :
             /\ Alike(s[i], t[i])
             /\ t[i].depth = s[i].depth /\ t[i].failing = s[i].failing
             /\ t[i].error = IF i = scope /\ s[i].error = 0 THEN e ELSE s[i].error
             /\ t[i].seen = IF i = InnermostScope(s) THEN s[i].seen \cup {e} ELSE s[i].seen
    BY <1>2, <2>1, ReportedFacts, ZenonT(30)
  <2> QED BY <1>1, <2>2 DEF Alike
<1>4. 1..n \subseteq 1..m
  OBVIOUS
<1>5. scope \in 1..Len(s) => s[scope].kind \in {"invoke", "scope"}
  BY DEF IsLast
<1>6. ASSUME NEW i \in 1..Len(t)
      PROVE  /\ t[i].seen \subseteq 1..m
             /\ t[i].seen # {} => t[i].kind \in {"invoke", "scope"}
             /\ IF t[i].seen = {} THEN t[i].error = 0
                ELSE t[i].error \in t[i].seen /\ \A x \in t[i].seen : t[i].error <= x
  <2>1. /\ s[i].seen \subseteq 1..n
        /\ s[i].seen # {} => s[i].kind \in {"invoke", "scope"}
        /\ IF s[i].seen = {} THEN s[i].error = 0
           ELSE s[i].error \in s[i].seen /\ \A x \in s[i].seen : s[i].error <= x
    BY <1>3 DEF Seen
  <2>2. CASE i # scope
    BY <1>3, <1>4, <2>1, <2>2
  <2>3. CASE i = scope /\ s[i].seen = {}
    <3>1. i \in 1..Len(s) /\ s[i].error = 0 /\ s[i].seen \cup {e} = {e}
      BY <1>3, <2>1, <2>3
    <3>2. t[i].seen = {e} /\ t[i].error = e
      BY <1>3, <2>3, <3>1
    <3>3. t[i].kind \in {"invoke", "scope"}
      BY <1>3, <1>5, <2>3, <3>1
    <3>4. {e} \subseteq 1..m /\ {e} # {} /\ e \in {e} /\ \A x \in {e} : e <= x
      OBVIOUS
    <3> QED BY <3>2, <3>3, <3>4
  <2>4. CASE i = scope /\ s[i].seen # {}
    <3>1. s[i].error \in 1..n /\ s[i].error # 0 /\ s[i].error < e
      BY <1>3, <2>1, <2>4 DEF Later
    <3>2. t[i].seen = s[i].seen \cup {e} /\ t[i].error = s[i].error
      BY <1>3, <2>4, <3>1
    <3>3. s[i].seen \cup {e} \subseteq 1..m /\ s[i].seen \cup {e} # {}
      BY <1>4, <2>1
    <3>4. s[i].error \in s[i].seen \cup {e} /\ \A x \in s[i].seen \cup {e} : s[i].error <= x
      BY <2>1, <2>4, <3>1
    <3>5. t[i].kind \in {"invoke", "scope"}
      BY <1>3, <2>1, <2>4
    <3> QED BY <3>2, <3>3, <3>4, <3>5
  <2> QED BY <2>2, <2>3, <2>4
<1>7. ASSUME NEW i \in 1..Len(t), NEW j \in 1..Len(t), i < j,
             NEW x \in t[i].seen, NEW y \in t[j].seen
      PROVE  x < y
  <2>1. CASE i # scope /\ j # scope
    BY <1>3, <1>7, <2>1 DEF Seen
  <2>2. CASE j = scope
    <3>0. i # scope
      BY <1>1, <1>3, <1>7, <2>2
    <3>1. x \in s[i].seen
      BY <1>3, <1>7, <3>0
    <3>2. x < e
      BY <1>3, <3>1 DEF Later
    <3>3. y \in s[j].seen \/ y = e
      BY <1>3, <2>2
    <3>4. y \in s[j].seen => x < y
      BY <1>3, <1>7, <3>1 DEF Seen
    <3> QED BY <3>2, <3>3, <3>4
  <2>3. CASE i = scope
    <3>0. j # scope
      BY <1>1, <1>3, <1>7, <2>3
    <3>1. y \in s[j].seen
      BY <1>3, <1>7, <3>0
    <3>2. s[j].kind \in {"invoke", "scope"}
      BY <1>3, <3>1 DEF Seen
    <3>3. j <= scope
      BY <1>1, <1>3, <3>2, LastUnique
    <3>4. scope \in 0..Len(s)
      BY DEF IsLast
    <3> QED BY <1>7, <2>3, <3>3, <3>4
  <2> QED BY <2>1, <2>2, <2>3
<1>8. Seen(t, m)
  BY <1>6, <1>7 DEF Seen
<1>9. Quiet(t)
  BY <1>3 DEF Quiet
<1> QED BY <1>2, <1>8, <1>9 DEF Errors, Quiet

-----------------------------------------------------------------------------
(* What lies on what.                                                      *)

\* A boundary is below the native body it was entered for, and native code that can
\* fail above a checkpoint of its program.
Bodies(s) ==
  /\ Len(s) # 0 /\ s[1].kind = "host"
  /\ \A i \in 1..Len(s) : s[i].kind = "interp" => s[i].program \in Programs
  /\ \A i \in 1..Len(s) : s[i].kind = "raw" /\ i < Len(s) =>
       s[i + 1].kind = "native" /\ s[i + 1].program = s[i].program
  /\ \A i \in 1..Len(s) : s[i].kind = "native" =>
       i > 1 /\ (s[i].program \in Boundary =>
                   s[i - 1].kind \in {"raw", "invoke"} /\ s[i - 1].program = s[i].program)

\* An activation x may lie on top of s.
Fits(s, x) ==
  /\ x.kind = "interp" => x.program \in Programs
  /\ s[Len(s)].kind = "raw" => x.kind = "native" /\ x.program = s[Len(s)].program
  /\ x.kind = "native" /\ x.program \in Boundary =>
       s[Len(s)].kind \in {"raw", "invoke"} /\ s[Len(s)].program = x.program

\* A call from an activation that may call.
LEMMA BodiesPush ==
  ASSUME NEW s \in Stacks, NEW t \in Stacks, Agree(s, t, Len(s)), Len(t) = Len(s) + 1,
         Fits(s, t[Len(t)]), Bodies(s)
  PROVE  Bodies(t)
<1>1. Len(s) \in Nat /\ Len(t) \in Nat /\ Len(s) # 0
  BY StackFacts DEF Bodies
<1>2. \A i \in 1..Len(s) : i \in 1..Len(t) /\ s[i].kind = t[i].kind /\ s[i].program = t[i].program
  BY <1>1 DEF Agree, Alike
<1>3. \A i \in 1..Len(t) : i \in 1..Len(s) \/ i = Len(t)
  BY <1>1
<1>4. t[1].kind = "host"
  BY <1>1, <1>2 DEF Bodies
<1>5. \A i \in 1..Len(t) : t[i].kind = "interp" => t[i].program \in Programs
  BY <1>2, <1>3 DEF Bodies, Fits
<1>6. ASSUME NEW i \in 1..Len(t), t[i].kind = "raw", i < Len(t)
      PROVE  t[i + 1].kind = "native" /\ t[i + 1].program = t[i].program
  <2>1. i \in 1..Len(s) /\ (i = Len(s) \/ (i < Len(s) /\ i + 1 \in 1..Len(s)))
    BY <1>1, <1>3, <1>6
  <2>2. CASE i = Len(s)
    BY <1>1, <1>2, <1>6, <2>1, <2>2 DEF Fits
  <2>3. CASE i < Len(s) /\ i + 1 \in 1..Len(s)
    BY <1>2, <1>6, <2>1, <2>3 DEF Bodies
  <2> QED BY <2>1, <2>2, <2>3
<1>7. ASSUME NEW i \in 1..Len(t), t[i].kind = "native"
      PROVE  i > 1 /\ (t[i].program \in Boundary =>
                         t[i - 1].kind \in {"raw", "invoke"} /\ t[i - 1].program = t[i].program)
  <2>1. CASE i \in 1..Len(s)
    <3>1. i > 1
      BY <1>2, <1>7, <2>1 DEF Bodies
    <3>2. i - 1 \in 1..Len(s)
      BY <2>1, <3>1
    <3> QED BY <1>2, <1>7, <2>1, <3>1, <3>2 DEF Bodies
  <2>2. CASE i = Len(t)
    <3>1. i > 1 /\ i - 1 = Len(s) /\ Len(s) \in 1..Len(s)
      BY <1>1, <2>2
    <3> QED BY <1>2, <1>7, <2>2, <3>1 DEF Fits
  <2> QED BY <1>3, <2>1, <2>2
<1> QED BY <1>1, <1>4, <1>5, <1>6, <1>7 DEF Bodies

\* A return leaves the calls below as they were.
LEMMA BodiesPop ==
  ASSUME NEW s \in Stacks, NEW t \in Stacks, Len(t) # 0, Len(t) <= Len(s), Agree(s, t, Len(t)),
         Bodies(s)
  PROVE  Bodies(t)
<1>1. Len(s) \in Nat /\ Len(t) \in Nat
  BY StackFacts
<1>2. \A i \in 1..Len(t) : i \in 1..Len(s) /\ s[i].kind = t[i].kind /\ s[i].program = t[i].program
  BY <1>1 DEF Agree, Alike
<1>3. t[1].kind = "host"
  BY <1>1, <1>2 DEF Bodies
<1>4. \A i \in 1..Len(t) : t[i].kind = "interp" => t[i].program \in Programs
  BY <1>2 DEF Bodies
<1>5. ASSUME NEW i \in 1..Len(t), t[i].kind = "raw", i < Len(t)
      PROVE  t[i + 1].kind = "native" /\ t[i + 1].program = t[i].program
  <2>1. i + 1 \in 1..Len(t) /\ i < Len(s)
    BY <1>1, <1>5
  <2> QED BY <1>2, <1>5, <2>1 DEF Bodies
<1>6. ASSUME NEW i \in 1..Len(t), t[i].kind = "native"
      PROVE  i > 1 /\ (t[i].program \in Boundary =>
                         t[i - 1].kind \in {"raw", "invoke"} /\ t[i - 1].program = t[i].program)
  <2>1. i > 1
    BY <1>2, <1>6 DEF Bodies
  <2>2. i - 1 \in 1..Len(t)
    BY <2>1
  <2> QED BY <1>2, <1>6, <2>1, <2>2 DEF Bodies
<1> QED BY <1>3, <1>4, <1>5, <1>6 DEF Bodies

-----------------------------------------------------------------------------
(* The C++ activations end one by one, innermost first.                    *)

\* One more activation: seen by C++ code when it is one of its own.
Joined(x, kind) == IF kind \in CppKinds THEN Append(x, kind) ELSE x

\* g gives the C++ activations among the first n of s, for every n.
Among(g, s) ==
  /\ g \in [0..Len(s) -> Seq(CppKinds)]
  /\ g[0] = <<>>
  /\ \A n \in 1..Len(s) : g[n] = Joined(g[n - 1], s[n].kind)

\* The C++ frames of a stack are counted from its bottom.
LEMMA CppRecursive ==
  ASSUME NEW s \in Stacks
  PROVE  \E g : Among(g, s) /\ Cpp(s) = g[Len(s)]
<1>1. PICK N \in Nat : N = Len(s)
  BY StackFacts
<1> DEFINE S == Seq(CppKinds)
           before == [n \in 1..N |-> n - 1]
           step == [a \in (1..N) \X S |-> Joined(a[2], s[a[1]].kind)]
           Defines(f) == f = [n \in 0..Len(s) |->
                                IF n = 0 THEN <<>>
                                ELSE IF s[n].kind \in CppKinds THEN Append(f[n - 1], s[n].kind)
                                ELSE f[n - 1]]
           among == CHOOSE f : Defines(f)
<1>2. \A x \in S : \A kind : Joined(x, kind) \in S
  BY DEF Joined
<1>3. Recursion(N, S, <<>>, before, step)
  <2>1. before \in [1..N -> Nat] /\ \A n \in 1..N : before[n] < n
    OBVIOUS
  <2>2. step \in [(1..N) \X S -> S]
    <3>1. \A a \in (1..N) \X S : Joined(a[2], s[a[1]].kind) \in S
      <4> HIDE DEF S
      <4> QED BY <1>2
    <3> HIDE DEF S
    <3> QED BY <3>1
  <2>3. <<>> \in S
    OBVIOUS
  <2> HIDE DEF S, before, step
  <2> QED BY <2>1, <2>2, <2>3 DEF Recursion
<1>4. PICK g : Solves(g, N, S, <<>>, before, step)
  <2> HIDE DEF S, before, step
  <2> QED BY <1>3, RecursionExists
<1>5. g \in [0..N -> S] /\ g[0] = <<>>
  BY <1>4 DEF Solves
<1>6. ASSUME NEW n \in 1..N
      PROVE  g[n] = Joined(g[n - 1], s[n].kind)
  <2>1. g[n] = step[<<n, g[before[n]]>>]
    BY <1>4 DEF Solves
  <2>2. before[n] = n - 1 /\ n - 1 \in 0..N
    OBVIOUS
  <2>3. g[n - 1] \in S
    BY <1>5, <2>2
  <2>4. \A x \in S : step[<<n, x>>] = Joined(x, s[n].kind)
    <3> HIDE DEF S
    <3> QED OBVIOUS
  <2> HIDE DEF S, before, step
  <2> QED BY <2>1, <2>2, <2>3, <2>4
<1>7. Defines(g)
  <2>1. \A n \in 0..N : g[n] = IF n = 0 THEN <<>>
                               ELSE IF s[n].kind \in CppKinds THEN Append(g[n - 1], s[n].kind)
                               ELSE g[n - 1]
    <3>1. \A n \in 0..N : n = 0 \/ n \in 1..N
      OBVIOUS
    <3> QED BY <1>5, <1>6, <3>1 DEF Joined
  <2>2. g = [n \in 0..N |-> g[n]]
    BY <1>5
  <2> QED BY <1>1, <2>1, <2>2
<1>8. Defines(among)
  <2> HIDE DEF Defines
  <2> QED BY <1>7
<1>9. Cpp(s) = among[Len(s)]
  BY DEF Cpp
<1>10. Among(among, s)
  <2>1. ASSUME NEW f, Defines(f)
        PROVE  /\ f[0] = <<>>
               /\ \A n \in 1..N : f[n] = Joined(f[n - 1], s[n].kind)
               /\ f = [n \in 0..N |-> f[n]]
    <3>1. \A n \in 0..N : f[n] = IF n = 0 THEN <<>>
                                 ELSE IF s[n].kind \in CppKinds THEN Append(f[n - 1], s[n].kind)
                                 ELSE f[n - 1]
      BY <1>1, <2>1
    <3>2. f = [n \in 0..N |-> f[n]]
      BY <1>1, <2>1
    <3>3. 0 \in 0..N /\ \A n \in 1..N : n \in 0..N /\ n # 0
      OBVIOUS
    <3> HIDE DEF Defines
    <3> QED BY <3>1, <3>2, <3>3 DEF Joined
  <2> DEFINE T == {n \in 0..N : among[n] \in S}
  <2> HIDE DEF among, Defines
  <2>2. /\ among[0] = <<>>
        /\ \A n \in 1..N : among[n] = Joined(among[n - 1], s[n].kind)
        /\ among = [n \in 0..N |-> among[n]]
    BY <1>8, <2>1
  <2>3. 0 \in T
    <3>1. <<>> \in S /\ 0 \in 0..N
      OBVIOUS
    <3> QED BY <2>2, <3>1
  <2>4. \A n \in 0..(N - 1) : n \in T => n + 1 \in T
    <3> SUFFICES ASSUME NEW n \in 0..(N - 1), among[n] \in S
                 PROVE  n + 1 \in 0..N /\ among[n + 1] \in S
      OBVIOUS
    <3>1. n + 1 \in 1..N /\ (n + 1) - 1 = n /\ n + 1 \in 0..N
      OBVIOUS
    <3> HIDE DEF S
    <3> QED BY <1>2, <2>2, <3>1
  <2>5. 0..N \subseteq T
    <3> HIDE DEF T
    <3> QED BY <2>3, <2>4, CountsUp
  <2>6. among \in [0..N -> S]
    BY <2>2, <2>5
  <2> QED BY <1>1, <2>2, <2>6 DEF Among
<1> QED BY <1>9, <1>10

\* The C++ activations depend on the kinds only.
LEMMA AmongSame ==
  ASSUME NEW s \in Stacks, NEW t \in Stacks, NEW n \in Nat, n <= Len(s), n <= Len(t),
         \A i \in 1..n : s[i].kind = t[i].kind,
         NEW g, Among(g, s), NEW h, Among(h, t)
  PROVE  g[n] = h[n]
<1> DEFINE T == {m \in 0..n : g[m] = h[m]}
<1>1. Len(s) \in Nat /\ Len(t) \in Nat
  BY StackFacts
<1>2. 0 \in T
  BY DEF Among
<1>3. ASSUME NEW m \in 0..(n - 1), m \in T
      PROVE  m + 1 \in T
  <2>1. /\ m + 1 \in 1..n /\ m + 1 \in 1..Len(s) /\ m + 1 \in 1..Len(t)
        /\ (m + 1) - 1 = m /\ m + 1 \in 0..n
    BY <1>1
  <2> QED BY <1>3, <2>1 DEF Among
<1>4. 0..n \subseteq T
  <2> HIDE DEF T
  <2> QED BY <1>2, <1>3, CountsUp
<1> QED BY <1>4

\* C++ frames are of the kinds that C++ code has.
LEMMA CppTypes ==
  ASSUME NEW s \in Stacks
  PROVE  Cpp(s) \in Seq(CppKinds)
BY CppRecursive, StackFacts DEF Among

\* t has the same activations as s, as far as their kinds go.
SameKinds(s, t) == Len(t) = Len(s) /\ \A i \in 1..Len(s) : t[i].kind = s[i].kind

\* A step that neither calls nor returns keeps the C++ frames.
LEMMA CppSame ==
  ASSUME NEW s \in Stacks, NEW t \in Stacks, SameKinds(s, t)
  PROVE  Cpp(t) = Cpp(s)
<1>1. PICK g : Among(g, s) /\ Cpp(s) = g[Len(s)]
  BY CppRecursive
<1>2. PICK h : Among(h, t) /\ Cpp(t) = h[Len(t)]
  BY CppRecursive
<1>3. PICK n \in Nat : n = Len(s) /\ n <= Len(s) /\ n <= Len(t)
  BY StackFacts DEF SameKinds
<1>4. \A i \in 1..n : s[i].kind = t[i].kind
  BY <1>3 DEF SameKinds
<1> QED BY <1>1, <1>2, <1>3, <1>4, AmongSame DEF SameKinds

\* t has one activation more than s, of this kind.
OneMore(s, t, kind) ==
  /\ Len(t) = Len(s) + 1
  /\ \A i \in 1..Len(s) : t[i].kind = s[i].kind
  /\ t[Len(t)].kind = kind

\* One call adds at most its own C++ frame.
LEMMA CppOneMore ==
  ASSUME NEW s \in Stacks, NEW t \in Stacks, NEW kind, OneMore(s, t, kind)
  PROVE  Cpp(t) = Joined(Cpp(s), kind)
<1>1. PICK g : Among(g, s) /\ Cpp(s) = g[Len(s)]
  BY CppRecursive
<1>2. PICK h : Among(h, t) /\ Cpp(t) = h[Len(t)]
  BY CppRecursive
<1>3. PICK n \in Nat : n = Len(s) /\ n <= Len(s) /\ n <= Len(t) /\ Len(t) = n + 1
  BY StackFacts DEF OneMore
<1>4. \A i \in 1..n : s[i].kind = t[i].kind
  BY <1>3 DEF OneMore
<1>5. g[n] = h[n]
  BY <1>1, <1>2, <1>3, <1>4, AmongSame
<1>6. n + 1 \in 1..Len(t) /\ (n + 1) - 1 = n
  BY <1>3
<1>7. h[n + 1] = Joined(h[n], t[n + 1].kind)
  BY <1>2, <1>6 DEF Among
<1> QED BY <1>1, <1>2, <1>3, <1>5, <1>7 DEF OneMore

\* t has two activations more than s, of these kinds.
TwoMore(s, t, kind, inner) ==
  /\ Len(t) = Len(s) + 2
  /\ \A i \in 1..Len(s) : t[i].kind = s[i].kind
  /\ t[Len(s) + 1].kind = kind
  /\ t[Len(t)].kind = inner

\* A gated call adds those of the gate and of its callee.
LEMMA CppTwoMore ==
  ASSUME NEW s \in Stacks, NEW t \in Stacks, NEW kind, NEW inner, TwoMore(s, t, kind, inner)
  PROVE  Cpp(t) = Joined(Joined(Cpp(s), kind), inner)
<1>1. PICK n \in Nat : n = Len(s)
  BY StackFacts
<1>2. n + 1 \in 0..Len(t) /\ Len(t) = (n + 1) + 1
  BY <1>1 DEF TwoMore
<1>3. PICK u \in Stacks : Len(u) = n + 1 /\ \A i \in 1..(n + 1) : u[i] = t[i]
  BY <1>2, PopFacts
<1>4. OneMore(s, u, kind)
  <2>1. n + 1 \in 1..(n + 1) /\ \A i \in 1..n : i \in 1..(n + 1)
    OBVIOUS
  <2> QED BY <1>1, <1>3, <2>1 DEF OneMore, TwoMore
<1>5. OneMore(u, t, inner)
  BY <1>1, <1>2, <1>3 DEF OneMore, TwoMore
<1>6. Cpp(u) = Joined(Cpp(s), kind)
  BY <1>4, CppOneMore
<1>7. Cpp(t) = Joined(Cpp(u), inner)
  BY <1>3, <1>5, CppOneMore
<1> QED BY <1>6, <1>7

\* Calls start, the innermost activation ends, or C++ code sees nothing.
Follows(x, y) ==
  \/ y = x
  \/ /\ Len(y) > Len(x)
     /\ SubSeq(y, 1, Len(x)) = x
     /\ \A i \in DOMAIN y : y[i] \in CppKinds
  \/ /\ Len(x) > 1
     /\ y = SubSeq(x, 1, Len(x) - 1)

\* One call is a step of the abstract stack.
LEMMA OneCall ==
  ASSUME NEW x \in Seq(CppKinds), NEW k \in CppKinds
  PROVE  Follows(x, Append(x, k))
<1>1. PICK y \in Seq(CppKinds) : y = Append(x, k)
  <2>1. Append(x, k) \in Seq(CppKinds)
    OBVIOUS
  <2> QED BY <2>1
<1>2. /\ Len(x) \in Nat /\ Len(y) = Len(x) + 1 /\ \A i \in 1..Len(x) : y[i] = x[i]
  BY <1>1
<1>3. SubSeq(y, 1, Len(x)) = x
  BY <1>1, <1>2, AppendProperties
<1>4. Len(y) > Len(x) /\ \A i \in DOMAIN y : y[i] \in CppKinds
  BY <1>2
<1> QED BY <1>1, <1>3, <1>4 DEF Follows

\* Two calls at once are a step of the abstract stack.
LEMMA TwoCalls ==
  ASSUME NEW x \in Seq(CppKinds), NEW k \in CppKinds, NEW l \in CppKinds
  PROVE  Follows(x, Append(Append(x, k), l))
<1>1. PICK y \in Seq(CppKinds) : y = Append(Append(x, k), l)
  <2>1. Append(Append(x, k), l) \in Seq(CppKinds)
    OBVIOUS
  <2> QED BY <2>1
<1>2. /\ Len(x) \in Nat /\ Len(y) = Len(x) + 2 /\ \A i \in 1..Len(x) : y[i] = x[i]
  BY <1>1
<1>3. SubSeq(y, 1, Len(x)) = x
  <2>1. /\ SubSeq(y, 1, Len(x)) \in Seq(CppKinds) /\ Len(SubSeq(y, 1, Len(x))) = Len(x)
        /\ \A i \in 1..Len(x) : SubSeq(y, 1, Len(x))[i] = y[i]
    BY <1>2
  <2> QED BY <1>2, <2>1, SeqEqual
<1>4. Len(y) > Len(x) /\ \A i \in DOMAIN y : y[i] \in CppKinds
  BY <1>2
<1> QED BY <1>1, <1>3, <1>4 DEF Follows

\* A return is a step of the abstract stack.
LEMMA OneReturn ==
  ASSUME NEW x \in Seq(CppKinds), NEW k \in CppKinds, Len(x) > 0
  PROVE  Follows(Append(x, k), x)
<1>1. PICK y \in Seq(CppKinds) : y = Append(x, k)
  <2>1. Append(x, k) \in Seq(CppKinds)
    OBVIOUS
  <2> QED BY <2>1
<1>2. /\ Len(x) \in Nat /\ Len(y) = Len(x) + 1 /\ \A i \in 1..Len(x) : y[i] = x[i]
  BY <1>1
<1>3. SubSeq(y, 1, Len(x)) = x
  <2>1. /\ SubSeq(y, 1, Len(x)) \in Seq(CppKinds) /\ Len(SubSeq(y, 1, Len(x))) = Len(x)
        /\ \A i \in 1..Len(x) : SubSeq(y, 1, Len(x))[i] = y[i]
    BY <1>2
  <2> QED BY <1>2, <2>1, SeqEqual
<1>4. Len(y) - 1 = Len(x) /\ Len(y) > 1
  BY <1>2
<1> QED BY <1>1, <1>3, <1>4 DEF Follows

\* A stack of C++ frames is never empty.
LEMMA JoinedLength ==
  ASSUME NEW x \in Seq(CppKinds), NEW k, Len(x) > 0 \/ k \in CppKinds
  PROVE  Len(Joined(x, k)) > 0
<1>1. CASE k \in CppKinds
  <2>1. Joined(x, k) = Append(x, k)
    BY <1>1 DEF Joined
  <2>2. Len(Append(x, k)) = Len(x) + 1 /\ Len(x) \in Nat
    BY <1>1
  <2> QED BY <2>1, <2>2
<1>2. CASE k \notin CppKinds
  BY <1>2 DEF Joined
<1> QED BY <1>1, <1>2

\* The host code that the thread began with is always among them.
LEMMA CppNotEmpty ==
  ASSUME NEW s \in Stacks, Bodies(s)
  PROVE  Len(Cpp(s)) > 0
<1>1. PICK g : Among(g, s) /\ Cpp(s) = g[Len(s)]
  BY CppRecursive
<1>2. PICK N \in Nat : Len(s) = N + 1
  <2>1. PICK m \in Nat : m = Len(s) /\ m # 0
    BY StackFacts DEF Bodies
  <2>2. m - 1 \in Nat /\ m = (m - 1) + 1
    BY <2>1
  <2> QED BY <2>1, <2>2
<1> DEFINE T == {n \in 0..N : Len(g[n + 1]) > 0}
<1>3. \A n \in 0..N : g[n] \in Seq(CppKinds) /\ n + 1 \in 1..Len(s) /\ (n + 1) - 1 = n
  BY <1>1, <1>2 DEF Among
<1>5. 0 \in T
  <2>1. g[1] = Joined(g[0], s[1].kind) /\ g[0] \in Seq(CppKinds)
    BY <1>1, <1>2, <1>3 DEF Among
  <2>2. s[1].kind \in CppKinds
    BY DEF Bodies, CppKinds
  <2>3. Len(g[0 + 1]) > 0
    BY <2>1, <2>2, JoinedLength
  <2> QED BY <2>3
<1>6. ASSUME NEW n \in 0..(N - 1), n \in T
      PROVE  n + 1 \in T
  <2>1. n + 1 \in 0..N
    OBVIOUS
  <2>2. g[(n + 1) + 1] = Joined(g[n + 1], s[(n + 1) + 1].kind) /\ g[n + 1] \in Seq(CppKinds)
    BY <1>1, <1>3, <2>1 DEF Among
  <2>3. Len(g[(n + 1) + 1]) > 0
    BY <1>6, <2>2, JoinedLength
  <2> QED BY <2>1, <2>3
<1>7. 0..N \subseteq T
  <2> HIDE DEF T
  <2> QED BY <1>5, <1>6, CountsUp
<1> QED BY <1>1, <1>2, <1>7

\* A C++ activation that ends is the innermost.
LEMMA CppPop ==
  ASSUME NEW s \in Stacks, NEW t \in Stacks, Bodies(t), NEW k \in CppKinds, OneMore(t, s, k)
  PROVE  Follows(Cpp(s), Cpp(t))
<1>1. Cpp(s) = Append(Cpp(t), k)
  BY CppOneMore DEF Joined
<1>2. Cpp(t) \in Seq(CppKinds) /\ Len(Cpp(t)) > 0
  BY CppTypes, CppNotEmpty
<1> QED BY <1>1, <1>2, OneReturn

\* One that starts is on top of those that were there.
LEMMA CppPush ==
  ASSUME NEW s \in Stacks, NEW t \in Stacks, NEW k \in CppKinds, OneMore(s, t, k)
  PROVE  Follows(Cpp(s), Cpp(t))
<1>1. Cpp(t) = Append(Cpp(s), k)
  BY CppOneMore DEF Joined
<1> QED BY <1>1, CppTypes, OneCall

\* Native bodies and boundaries are none of its own.
LEMMA CppBody ==
  ASSUME NEW s \in Stacks, NEW t \in Stacks, OneMore(s, t, "native")
  PROVE  Cpp(t) = Cpp(s)
BY CppOneMore DEF Joined, CppKinds

\* The gate into native code has no C++ frame.
LEMMA CppGate ==
  ASSUME NEW s \in Stacks, NEW t \in Stacks, TwoMore(s, t, "raw", "native")
  PROVE  Cpp(t) = Cpp(s)
<1>1. Cpp(t) = Joined(Joined(Cpp(s), "raw"), "native")
  BY CppTwoMore
<1> QED BY <1>1 DEF Joined, CppKinds

\* A checked call has one C++ frame.
LEMMA CppChecked ==
  ASSUME NEW s \in Stacks, NEW t \in Stacks, NEW k \in CppKinds, TwoMore(s, t, k, "native")
  PROVE  Cpp(t) = Append(Cpp(s), k) /\ Follows(Cpp(s), Cpp(t))
<1>1. Cpp(t) = Joined(Joined(Cpp(s), k), "native")
  BY CppTwoMore
<1>2. Cpp(t) = Append(Cpp(s), k)
  BY <1>1 DEF Joined, CppKinds
<1> QED BY <1>2, CppTypes, OneCall


-----------------------------------------------------------------------------
(* A thread, one activation at a time.                                     *)

Thread(s, frames, D, c, sc, a, n) ==
  /\ s \in Stacks
  /\ D \in Nat
  /\ n \in Nat
  /\ Pointers(s, frames, D, c, sc, a)
  /\ Bodies(s)
  /\ Errors(s, n)

\* The pointers are positions on the stack or raw frames.
LEMMA ThreadTypes ==
  ASSUME NEW s, NEW frames, NEW D, NEW c, NEW sc, NEW a, NEW n, Thread(s, frames, D, c, sc, a, n)
  PROVE  /\ Len(s) \in Nat \ {0}
         /\ sc \in 0..Len(s) /\ IsLast(s, Len(s), {"invoke", "scope"}, sc)
         /\ a \in 0..Len(s) /\ IsLast(s, Len(s), {"interp"}, a)
         /\ \/ c = Null
            \/ \E k \in 1..Len(s) : c = <<"invoke", k>>
            \/ \E d \in 1..D : c = <<"raw", d>>
         /\ c \in {"null", "invoke", "raw"} \X Nat
<1>1. Len(s) \in Nat \ {0}
  BY StackFacts DEF Thread, Bodies
<1>2. IsLast(s, Len(s), {"invoke", "scope"}, sc) /\ IsLast(s, Len(s), {"interp"}, a)
  BY DEF Thread, Pointers, Interpreters, Chain
<1>3. sc \in 0..Len(s) /\ a \in 0..Len(s)
  BY <1>2 DEF IsLast
<1>4. IsCheckpoint(s, Len(s), At(frames, D), c)
  BY DEF Thread, Pointers, Checkpoints
<1>5. \/ c = Null
      \/ \E k \in 1..Len(s) : c = <<"invoke", k>>
      \/ \E d \in 1..D : c = <<"raw", d>>
  BY <1>1, <1>4 DEF IsCheckpoint, At
<1>6. c \in {"null", "invoke", "raw"} \X Nat
  <2>1. \A k \in 1..Len(s) : <<"invoke", k>> \in {"null", "invoke", "raw"} \X Nat
    BY <1>1
  <2>2. \A d \in 1..D : <<"raw", d>> \in {"null", "invoke", "raw"} \X Nat
    BY DEF Thread
  <2> QED BY <1>5, <2>1, <2>2 DEF Null
<1> QED BY <1>1, <1>2, <1>3, <1>5, <1>6

\* An activation that has seen nothing.
LEMMA PlainFacts ==
  ASSUME NEW kind \in {"host", "native", "raw", "invoke", "scope", "interp"},
         NEW p \in Programs \cup {"none"}
  PROVE  /\ Plain(kind, p) \in Activation
         /\ Plain(kind, p).kind = kind /\ Plain(kind, p).program = p
         /\ Plain(kind, p).seen = {} /\ Plain(kind, p).error = 0 /\ Plain(kind, p).failing = 0
         /\ Plain(kind, p).previous = 0 /\ Plain(kind, p).depth = 0
BY DEF Plain, Activation, Null


\* An activation is put on top, or only the first n remain.
Puts(s, x, t) == t = Append(s, x)
Leaves(s, n, t) == t = SubSeq(s, 1, n)

\* What a call keeps of the stack below it.
LEMMA PushKeeps ==
  ASSUME NEW s \in Stacks, NEW x \in Activation, NEW t, Puts(s, x, t)
  PROVE  /\ t \in Stacks /\ Len(t) = Len(s) + 1 /\ t[Len(t)] = x
         /\ \A i \in 1..Len(s) : t[i] = s[i]
         /\ Same(s, t, Len(s)) /\ Agree(s, t, Len(s)) /\ Notes(s, t, Len(s))
<1>1. t \in Stacks /\ Pushes(s, x, t)
  BY PushFacts DEF Puts
<1> QED BY <1>1 DEF Pushes, Same, Agree, Alike, Notes

\* What a return keeps of the stack it returns to.
LEMMA PopKeeps ==
  ASSUME NEW s \in Stacks, NEW n \in 0..Len(s), NEW t, Leaves(s, n, t)
  PROVE  /\ t \in Stacks /\ Len(t) = n
         /\ \A i \in 1..n : t[i] = s[i]
         /\ Same(s, t, n) /\ Agree(s, t, n) /\ Notes(s, t, n)
<1>1. t \in Stacks /\ Len(t) = n /\ \A i \in 1..n : t[i] = s[i]
  BY PopFacts DEF Leaves
<1> QED BY <1>1 DEF Same, Agree, Alike, Notes

\* A new activation has seen no error.
Blank(x) == /\ x \in Activation
            /\ x.seen = {} /\ x.error = 0 /\ x.failing = 0 /\ x.previous = 0

\* Host or native code is called.
LEMMA ThreadBody ==
  ASSUME NEW s, NEW frames, NEW D, NEW c, NEW sc, NEW a, NEW n, Thread(s, frames, D, c, sc, a, n),
         NEW x, Blank(x), x.kind \in {"host", "native"}, Fits(s, x), Quiet(s),
         NEW t, Puts(s, x, t)
  PROVE  /\ Thread(t, frames, D, c, sc, a, n) /\ Quiet(t)
         /\ Len(t) = Len(s) + 1 /\ t[Len(t)] = x
         /\ \A i \in 1..Len(s) : t[i] = s[i]
<1>1. x \in Activation /\ x.seen = {} /\ x.error = 0 /\ x.failing = 0 /\ x.previous = 0
  BY DEF Blank
<1>2. s \in Stacks /\ Pointers(s, frames, D, c, sc, a) /\ Bodies(s) /\ Errors(s, n) /\ D \in Nat /\ n \in Nat
  BY DEF Thread
<1>3. /\ t \in Stacks /\ Len(t) = Len(s) + 1 /\ t[Len(t)] = x
      /\ \A i \in 1..Len(s) : t[i] = s[i]
      /\ Same(s, t, Len(s)) /\ Agree(s, t, Len(s)) /\ Notes(s, t, Len(s))
  BY <1>1, <1>2, PushKeeps
<1>4. Pointers(t, frames, D, c, sc, a)
  BY <1>1, <1>2, <1>3, PointersKeep
<1>5. Bodies(t)
  BY <1>2, <1>3, BodiesPush
<1>6. Errors(t, n) /\ Quiet(t)
  BY <1>1, <1>2, <1>3, ErrorsPush
<1> QED BY <1>2, <1>3, <1>4, <1>5, <1>6 DEF Thread

\* A boundary is entered, in order to run native code of the same program: t has the
\* frame x of the boundary on top of s, and u the body y on top of it.
Enters(s, frames, D, c, filled, x, t, y, u) ==
  /\ Blank(x) /\ x.kind = "raw" /\ s[Len(s)].kind # "raw" /\ Quiet(s)
  /\ Puts(s, x, t)
  /\ Fills(frames, D, filled, Len(s) + 1, c)
  /\ Blank(y) /\ y.kind = "native" /\ y.program = x.program
  /\ Puts(t, y, u)

\* s is the lower part of u.
Extends(s, u) == \A i \in 1..Len(s) : u[i] = s[i]

\* Entering native code through the gate records a frame (enter).
LEMMA ThreadEnter ==
  ASSUME NEW s, NEW frames, NEW D, NEW c, NEW sc, NEW a, NEW n, Thread(s, frames, D, c, sc, a, n),
         NEW filled, NEW x, NEW t, NEW y, NEW u, Enters(s, frames, D, c, filled, x, t, y, u)
  PROVE  /\ Thread(u, filled, D + 1, <<"raw", D + 1>>, sc, a, n) /\ Quiet(u)
         /\ Len(u) = Len(s) + 2 /\ u[Len(u)] = y /\ u[Len(s) + 1] = x
         /\ Extends(s, u)
<1> USE DEF Enters
<1>1. x \in Activation /\ x.seen = {} /\ x.error = 0 /\ x.failing = 0 /\ x.previous = 0
  BY DEF Blank
<1>2. s \in Stacks /\ Pointers(s, frames, D, c, sc, a) /\ Bodies(s) /\ Errors(s, n) /\ D \in Nat /\ n \in Nat
  BY DEF Thread
<1>3. /\ t \in Stacks /\ Len(t) = Len(s) + 1 /\ t[Len(t)] = x
      /\ \A i \in 1..Len(s) : t[i] = s[i]
      /\ Same(s, t, Len(s)) /\ Agree(s, t, Len(s)) /\ Notes(s, t, Len(s))
  BY <1>1, <1>2, PushKeeps
<1>4. Pointers(t, filled, D + 1, <<"raw", D + 1>>, sc, a)
  <2>1. Fills(frames, D, filled, Len(t), c)
    BY <1>3
  <2>2. t[Len(t)].kind = "raw" /\ t[Len(t)].previous = 0
    BY <1>1, <1>3
  <2> QED BY <1>2, <1>3, <2>1, <2>2, PointersEnter
<1>5. Bodies(t)
  <2>1. Fits(s, t[Len(t)])
    BY <1>3 DEF Fits
  <2> QED BY <1>2, <1>3, <2>1, BodiesPush
<1>6. Errors(t, n) /\ Quiet(t)
  BY <1>1, <1>2, <1>3, ErrorsPush
<1>7. PICK E, top : E = D + 1 /\ top = <<"raw", D + 1>> /\ Thread(t, filled, E, top, sc, a, n)
  BY <1>2, <1>3, <1>4, <1>5, <1>6 DEF Thread
<1>8. Fits(t, y)
  BY <1>3 DEF Fits
<1>9. /\ Thread(u, filled, E, top, sc, a, n) /\ Quiet(u)
      /\ Len(u) = Len(t) + 1 /\ u[Len(u)] = y
      /\ \A i \in 1..Len(t) : u[i] = t[i]
  BY <1>6, <1>7, <1>8, ThreadBody
<1>10. Len(s) \in Nat
  BY <1>2, StackFacts
<1> QED BY <1>3, <1>7, <1>9, <1>10 DEF Extends

\* NativeCalls::call: an invoke with a checkpoint, or a scope, and the native body.
LEMMA ThreadChecked ==
  ASSUME NEW s, NEW frames, NEW D, NEW a, NEW n, Thread(s, frames, D, current, scope, a, n),
         NEW p \in Programs, s[Len(s)].kind # "raw", Quiet(s),
         NEW t, t = Checked(p, s)
  PROVE  /\ Thread(t, frames, D, IF p \in Boundary THEN <<"invoke", Len(s) + 1>> ELSE current,
                   Len(s) + 1, a, n)
         /\ TwoMore(s, t, IF p \in Boundary THEN "invoke" ELSE "scope", "native")
<1>1. p \in Programs
  OBVIOUS
<1>2. PICK kind : kind = IF p \in Boundary THEN "invoke" ELSE "scope"
  OBVIOUS
<1>3. PICK x : x = [Plain(kind, p) EXCEPT !.checkpoint = current, !.outer = scope]
  OBVIOUS
<1>4. PICK y : y = Plain("native", p)
  OBVIOUS
<1>5. /\ x \in Activation /\ x.seen = {} /\ x.error = 0 /\ x.failing = 0 /\ x.previous = 0
      /\ x.kind = kind /\ x.program = p /\ x.checkpoint = current /\ x.outer = scope
  <2>1. Plain(kind, p) \in Activation
    BY <1>1, <1>2, PlainFacts
  <2>2. current \in {"null", "invoke", "raw"} \X Nat /\ scope \in Nat
    BY ThreadTypes
  <2> QED BY <1>3, <2>1, <2>2 DEF Activation, Plain
<1>6. Blank(y) /\ y.kind = "native" /\ y.program = p /\ y \in Activation
  BY <1>1, <1>4, PlainFacts DEF Blank
<1>7. PICK u : Puts(s, x, u)
  BY DEF Puts
<1>8. /\ s \in Stacks /\ Pointers(s, frames, D, current, scope, a) /\ Bodies(s) /\ Errors(s, n)
      /\ D \in Nat /\ n \in Nat
  BY DEF Thread
<1>9. Puts(u, y, t)
  <2>1. t = s \o <<x, y>>
    BY <1>2, <1>3, <1>4 DEF Checked
  <2>2. s \o <<x, y>> = Append(Append(s, x), y)
    BY <1>5, <1>6, <1>8, TwoPushes
  <2> QED BY <1>7, <2>1, <2>2 DEF Puts
<1>10. /\ u \in Stacks /\ Len(u) = Len(s) + 1 /\ u[Len(u)] = x
       /\ \A i \in 1..Len(s) : u[i] = s[i]
       /\ Same(s, u, Len(s)) /\ Agree(s, u, Len(s)) /\ Notes(s, u, Len(s))
  BY <1>5, <1>7, <1>8, PushKeeps
<1>11. PICK c : /\ c = IF p \in Boundary THEN <<"invoke", Len(s) + 1>> ELSE current
                /\ Pointers(u, frames, D, c, Len(u), a)
  <2>1. CASE p \in Boundary
    <3>1. Pointers(u, frames, D, <<"invoke", Len(u)>>, Len(u), a)
      BY <1>2, <1>5, <1>8, <1>10, <2>1, PointersInvoke
    <3> QED BY <1>10, <2>1, <3>1
  <2>2. CASE p \notin Boundary
    <3>1. Pointers(u, frames, D, current, Len(u), a)
      BY <1>2, <1>5, <1>8, <1>10, <2>2, PointersScope
    <3> QED BY <2>2, <3>1
  <2> QED BY <2>1, <2>2
<1>12. Bodies(u)
  <2>1. Fits(s, u[Len(u)])
    BY <1>2, <1>5, <1>10 DEF Fits
  <2> QED BY <1>8, <1>10, <2>1, BodiesPush
<1>13. Errors(u, n) /\ Quiet(u)
  BY <1>5, <1>8, <1>10, ErrorsPush
<1>14. PICK k : k = Len(u) /\ Thread(u, frames, D, c, k, a, n)
  BY <1>8, <1>10, <1>11, <1>12, <1>13 DEF Thread
<1>15. Fits(u, y)
  BY <1>2, <1>5, <1>6, <1>10 DEF Fits
<1>16. /\ Thread(t, frames, D, c, k, a, n) /\ Len(t) = Len(u) + 1 /\ t[Len(t)] = y
       /\ \A i \in 1..Len(u) : t[i] = u[i]
  BY <1>6, <1>9, <1>13, <1>14, <1>15, ThreadBody
<1>17. Len(s) \in Nat
  BY <1>8, StackFacts
<1>18. TwoMore(s, t, kind, "native")
  <2>1. /\ Len(t) = Len(s) + 2 /\ Len(s) + 1 = Len(u) /\ Len(u) \in 1..Len(u)
        /\ \A i \in 1..Len(s) : i \in 1..Len(u)
    BY <1>10, <1>16, <1>17
  <2> QED BY <1>5, <1>6, <1>10, <1>16, <2>1 DEF TwoMore
<1> QED BY <1>2, <1>10, <1>11, <1>14, <1>16, <1>18

\* A host function, a native body or a scope ends.
LEMMA ThreadPop ==
  ASSUME NEW s, NEW frames, NEW D, NEW c, NEW sc, NEW a, NEW n, Thread(s, frames, D, c, sc, a, n),
         Len(s) > 1, s[Len(s)].kind \notin {"raw", "interp"},
         NEW t, Leaves(s, Len(s) - 1, t)
  PROVE  /\ Thread(t, frames, D,
                   IF s[Len(s)].kind = "invoke" THEN s[Len(s)].checkpoint ELSE c,
                   IF s[Len(s)].kind \in {"invoke", "scope"} THEN s[Len(s)].outer ELSE sc, a, n)
         /\ Quiet(t) /\ Len(t) = Len(s) - 1 /\ \A i \in 1..Len(t) : t[i] = s[i]
<1>1. s \in Stacks /\ Pointers(s, frames, D, c, sc, a) /\ Bodies(s) /\ Errors(s, n) /\ D \in Nat /\ n \in Nat
  BY DEF Thread
<1>2. PICK k \in 0..Len(s) : k = Len(s) - 1 /\ k # 0 /\ Len(s) = k + 1
  BY <1>1, StackFacts
<1>3. Leaves(s, k, t)
  BY <1>2
<1>4. /\ t \in Stacks /\ Len(t) = k /\ \A i \in 1..k : t[i] = s[i]
      /\ Same(s, t, k) /\ Agree(s, t, k) /\ Notes(s, t, k)
  BY <1>1, <1>3, PopKeeps
<1>5. Pointers(t, frames, D,
               IF s[Len(s)].kind = "invoke" THEN s[Len(s)].checkpoint ELSE c,
               IF s[Len(s)].kind \in {"invoke", "scope"} THEN s[Len(s)].outer ELSE sc, a)
  BY <1>1, <1>2, <1>4, PointersPop
<1>6. Bodies(t)
  BY <1>1, <1>2, <1>4, BodiesPop
<1>7. Errors(t, n) /\ Quiet(t)
  <2>1. Len(t) < Len(s) /\ n <= n
    BY <1>1, <1>2, <1>4
  <2> QED BY <1>1, <1>4, <2>1, ErrorsPop
<1> QED BY <1>1, <1>2, <1>4, <1>5, <1>6, <1>7 DEF Thread

\* NativeBoundary::leave.
LEMMA ThreadLeave ==
  ASSUME NEW s, NEW frames, NEW D, NEW c, NEW sc, NEW a, NEW n, Thread(s, frames, D, c, sc, a, n),
         Len(s) > 1, s[Len(s)].kind = "raw",
         NEW t, Leaves(s, Len(s) - 1, t)
  PROVE  /\ D > 0 /\ c = <<"raw", D>> /\ frames[D].sp = Len(s)
         /\ Thread(t, frames, D - 1, frames[D].previous, sc, a, n)
         /\ Quiet(t) /\ Len(t) = Len(s) - 1 /\ \A i \in 1..Len(t) : t[i] = s[i]
<1>1. s \in Stacks /\ Pointers(s, frames, D, c, sc, a) /\ Bodies(s) /\ Errors(s, n) /\ D \in Nat /\ n \in Nat
  BY DEF Thread
<1>2. PICK k \in 0..Len(s) : k = Len(s) - 1 /\ k # 0 /\ Len(s) = k + 1
  BY <1>1, StackFacts
<1>3. Leaves(s, k, t)
  BY <1>2
<1>4. /\ t \in Stacks /\ Len(t) = k /\ \A i \in 1..k : t[i] = s[i]
      /\ Same(s, t, k) /\ Agree(s, t, k) /\ Notes(s, t, k)
  BY <1>1, <1>3, PopKeeps
<1>5. /\ D > 0 /\ c = <<"raw", D>> /\ frames[D].sp = Len(s)
      /\ Pointers(t, frames, D - 1, frames[D].previous, sc, a)
  BY <1>1, <1>2, <1>4, PointersLeave
<1>6. Bodies(t)
  BY <1>1, <1>2, <1>4, BodiesPop
<1>7. Errors(t, n) /\ Quiet(t)
  <2>1. Len(t) < Len(s) /\ n <= n
    BY <1>1, <1>2, <1>4
  <2> QED BY <1>1, <1>4, <2>1, ErrorsPop
<1>8. D - 1 \in Nat
  BY <1>1, <1>5
<1> QED BY <1>1, <1>2, <1>4, <1>5, <1>6, <1>7, <1>8 DEF Thread

\* report_execution_error.
LEMMA ThreadReport ==
  ASSUME NEW s, NEW frames, NEW D, NEW c, NEW a, NEW n, Thread(s, frames, D, c, scope, a, n),
         Quiet(s), NEW m \in Nat, n <= m, NEW e \in 1..m, Later(s, e),
         NEW t, t = Reported(s, e)
  PROVE  /\ Thread(t, frames, D, c, scope, a, m) /\ Quiet(t)
         /\ Len(t) = Len(s) /\ Agree(s, t, Len(s))
<1>1. s \in Stacks /\ Pointers(s, frames, D, c, scope, a) /\ Bodies(s) /\ Errors(s, n) /\ D \in Nat /\ n \in Nat
  BY DEF Thread
<1>2. t \in Stacks /\ Len(t) = Len(s) /\ Same(s, t, Len(s)) /\ Agree(s, t, Len(s))
  <2>1. e \in Nat
    OBVIOUS
  <2> QED BY <1>1, <2>1, ReportedFacts DEF Same, Agree
<1>3. Pointers(t, frames, D, c, scope, a)
  BY <1>1, <1>2, PointersKeep
<1>4. Bodies(t)
  <2>1. Len(s) # 0 /\ Len(t) # 0 /\ Len(t) <= Len(s)
    BY <1>1, <1>2, StackFacts DEF Bodies
  <2> QED BY <1>1, <1>2, <2>1, BodiesPop
<1>5. Errors(t, m) /\ Quiet(t)
  <2>1. IsLast(s, Len(s), {"invoke", "scope"}, scope)
    BY ThreadTypes
  <2>2. Seen(s, n)
    BY <1>1 DEF Errors
  <2> QED BY <1>1, <2>1, <2>2, ErrorsReported
<1> QED BY <1>1, <1>2, <1>3, <1>4, <1>5 DEF Thread

\* The innermost interpreter is told of an error.
LEMMA ThreadFail ==
  ASSUME NEW s, NEW frames, NEW D, NEW c, NEW sc, NEW a, NEW n, Thread(s, frames, D, c, sc, a, n),
         Quiet(s), NEW m \in Nat, n <= m, NEW e \in Nat,
         e # 0 => s[Len(s)].kind = "interp" /\ e \in 1..m /\ Later(s, e),
         NEW t, Fails(s, Len(s), e, t)
  PROVE  /\ Thread(t, frames, D, c, sc, a, m)
         /\ Len(t) = Len(s) /\ Agree(s, t, Len(s))
<1>1. s \in Stacks /\ Pointers(s, frames, D, c, sc, a) /\ Bodies(s) /\ Errors(s, n) /\ D \in Nat /\ n \in Nat
  BY DEF Thread
<1>2. Len(s) \in Nat /\ Len(s) # 0 /\ Len(s) \in 1..Len(s)
  BY <1>1, StackFacts DEF Bodies
<1>3. /\ t \in Stacks /\ Len(t) = Len(s)
      /\ \A i \in 1..Len(s) : i # Len(s) => t[i] = s[i]
      /\ t[Len(s)].failing = e /\ t[Len(s)].depth = s[Len(s)].depth
      /\ t[Len(s)].seen = s[Len(s)].seen /\ t[Len(s)].error = s[Len(s)].error
      /\ Alike(s[Len(s)], t[Len(s)])
  BY <1>1, <1>2, FailingFacts
<1>4. Same(s, t, Len(s)) /\ Agree(s, t, Len(s))
  <2>1. \A i \in 1..Len(s) : Alike(s[i], t[i]) /\ s[i].depth = t[i].depth
    BY <1>3 DEF Alike
  <2> QED BY <2>1 DEF Same, Agree
<1>5. Pointers(t, frames, D, c, sc, a)
  BY <1>1, <1>3, <1>4, PointersKeep
<1>6. Bodies(t)
  <2>1. Len(t) # 0 /\ Len(t) <= Len(s)
    BY <1>2, <1>3
  <2> QED BY <1>1, <1>3, <1>4, <2>1, BodiesPop
<1>7. Errors(t, m)
  <2>1. \A i \in 1..Len(s) : /\ t[i].kind = s[i].kind /\ t[i].seen = s[i].seen
                             /\ t[i].error = s[i].error
                             /\ i # Len(s) => t[i].failing = s[i].failing
    BY <1>3 DEF Alike
  <2>2. Seen(s, n)
    BY <1>1 DEF Errors
  <2> QED BY <1>1, <1>2, <1>3, <2>1, <2>2, ErrorsFail
<1> QED BY <1>1, <1>3, <1>4, <1>5, <1>6, <1>7 DEF Thread

\* The invocation of p that a call uses on top of s, which is the stack and perhaps
\* the boundary and the entry stub the call has gone through.
Owner(p, s) == IF find(p) = 0 THEN Len(s) + 1 ELSE find(p)

\* s is the stack with no other interpreter on top.
Above(s) ==
  /\ Len(stack) <= Len(s)
  /\ \A i \in 1..Len(stack) : s[i] = stack[i]
  /\ \A i \in 1..Len(s) : i > Len(stack) => s[i].kind # "interp"

Running == Thread(stack, raw_frames, raw_depth, current, scope, activation, errors)

\* The depth that find leads to is the number of p's interpreters.
LEMMA OwnerFacts ==
  ASSUME Running, NEW s \in Stacks, Above(s), NEW p \in Programs
  PROVE  /\ Mine(s, p) = Mine(stack, p)
         /\ Mine(s, p) = {} => Owner(p, s) = Len(s) + 1
         /\ Mine(s, p) # {} => /\ \E i \in Mine(s, p) : Owner(p, s) = s[i].invocation
                               /\ Owner(p, s) \in Mine(s, p)
                               /\ s[Owner(p, s)].depth = Cardinality(Mine(s, p))
         /\ DepthOf(p) = Cardinality(Mine(s, p))
<1>1. /\ stack \in Stacks /\ Budget(stack) /\ Interpreters(stack, activation)
      /\ Len(stack) \in Nat /\ Len(s) \in Nat
  BY StackFacts DEF Running, Thread, Pointers
<1>2. \A i : i \in 1..Len(stack) <=> i \in 1..Len(s) /\ ~(i > Len(stack))
  BY <1>1 DEF Above
<1>3. Mine(s, p) = Mine(stack, p)
  BY <1>2 DEF Mine, Above
<1>4. \A i \in Mine(stack, p) : i \in 1..Len(stack) /\ s[i] = stack[i]
  BY <1>1, MineFinite DEF Above
<1>5. CASE Mine(s, p) = {}
  <2>1. find(p) = 0
    BY <1>1, <1>3, <1>5, FindFacts
  <2>2. Cardinality(Mine(s, p)) = 0
    BY <1>5, FS_EmptySet
  <2> QED BY <1>3, <1>5, <2>1, <2>2 DEF Owner, DepthOf
<1>6. CASE Mine(s, p) # {}
  <2>1. PICK i \in Mine(stack, p) : find(p) = stack[i].invocation
    BY <1>1, <1>3, <1>6, FindFacts
  <2>2. find(p) \in Mine(stack, p) /\ stack[find(p)].depth = Cardinality(Mine(stack, p))
    BY <1>1, <2>1 DEF Budget
  <2>3. find(p) # 0
    BY <1>4, <2>2
  <2>4. Owner(p, s) = find(p) /\ DepthOf(p) = stack[find(p)].depth
    BY <2>3 DEF Owner, DepthOf
  <2>5. s[i].invocation = stack[i].invocation /\ s[find(p)] = stack[find(p)]
    BY <1>4, <2>1, <2>2
  <2> QED BY <1>3, <1>6, <2>1, <2>2, <2>4, <2>5
<1> QED BY <1>3, <1>5, <1>6

\* InterpreterInvocation::invoke starts.
LEMMA ThreadInterp ==
  ASSUME Running,
         NEW s, NEW frames, NEW D, NEW c, NEW sc, NEW n, Thread(s, frames, D, c, sc, activation, n),
         Quiet(s), s[Len(s)].kind # "raw", Above(s),
         NEW p \in Programs, NEW role \in {"none", "body", "host", "native"},
         NEW reports \in BOOLEAN, DepthOf(p) < Limit,
         NEW t, t = Interpret(p, role, reports, s)
  PROVE  /\ Thread(t, frames, D, c, sc, Len(s) + 1, n) /\ Quiet(t)
         /\ Len(t) = Len(s) + 1 /\ t[Len(t)].kind = "interp" /\ Agree(s, t, Len(s))
<1>1. /\ s \in Stacks /\ Pointers(s, frames, D, c, sc, activation) /\ Bodies(s) /\ Errors(s, n)
      /\ D \in Nat /\ n \in Nat /\ Len(s) \in Nat
  BY StackFacts DEF Thread
<1>2. PICK owner : owner = Owner(p, s)
  OBVIOUS
<1>3. PICK count : count = Cardinality(Mine(s, p))
  OBVIOUS
<1>4. /\ count \in Nat /\ count < Limit
      /\ Mine(s, p) = {} => owner = Len(s) + 1 /\ count = 0
      /\ Mine(s, p) # {} => /\ \E i \in Mine(s, p) : owner = s[i].invocation
                            /\ owner \in Mine(s, p) /\ owner \in 1..Len(s)
                            /\ s[owner].depth = count
  BY <1>1, <1>2, <1>3, OwnerFacts, MineFinite
<1>5. owner \in 1..(Len(s) + 1)
  <2>1. Mine(s, p) = {} \/ Mine(s, p) # {}
    OBVIOUS
  <2>2. Len(s) + 1 \in 1..(Len(s) + 1) /\ \A i \in 1..Len(s) : i \in 1..(Len(s) + 1)
    BY <1>1
  <2> QED BY <1>4, <2>1, <2>2
<1>6. PICK x : x = [Plain("interp", p) EXCEPT !.previous = activation, !.invocation = owner,
                                              !.role = role, !.reports = reports]
  OBVIOUS
<1>7. /\ x \in Activation /\ x.seen = {} /\ x.error = 0 /\ x.failing = 0 /\ x.depth = 0
      /\ x.kind = "interp" /\ x.program = p /\ x.previous = activation /\ x.invocation = owner
  <2>1. Plain("interp", p) \in Activation
    BY PlainFacts
  <2>2. activation \in Nat /\ owner \in Nat
    BY <1>5, ThreadTypes
  <2> QED BY <1>6, <2>1, <2>2 DEF Activation, Plain
<1>8. PICK g : Puts(s, x, g)
  BY DEF Puts
<1>9. /\ g \in Stacks /\ Len(g) = Len(s) + 1 /\ g[Len(g)] = x
      /\ \A i \in 1..Len(s) : g[i] = s[i]
  BY <1>1, <1>7, <1>8, PushKeeps
<1>10. owner \in 1..Len(g) /\ g[owner].depth = count
  <2>1. CASE Mine(s, p) = {}
    BY <1>4, <1>5, <1>7, <1>9, <2>1
  <2>2. CASE Mine(s, p) # {}
    BY <1>4, <1>5, <1>9, <2>2
  <2> QED BY <2>1, <2>2
<1>11. Counts(g, owner, count + 1, t)
  <2>1. t = [g EXCEPT ![owner].depth = @ + 1]
    BY <1>2, <1>6, <1>8 DEF Interpret, Owner, Puts
  <2> QED BY <1>10, <2>1 DEF Counts
<1>12. /\ t \in Stacks /\ Len(t) = Len(g)
       /\ \A j \in 1..Len(g) : j # owner => t[j] = g[j]
       /\ t[owner].failing = g[owner].failing /\ t[owner].depth = count + 1
       /\ t[owner].seen = g[owner].seen /\ t[owner].error = g[owner].error
       /\ Alike(g[owner], t[owner])
  <2>1. count + 1 \in Nat
    BY <1>4
  <2> QED BY <1>9, <1>10, <1>11, <2>1, DepthFacts
<1>13. \A j \in 1..Len(g) : /\ Alike(g[j], t[j])
                            /\ t[j].seen = g[j].seen /\ t[j].error = g[j].error
                            /\ t[j].failing = g[j].failing
  BY <1>12 DEF Alike
<1>14. /\ Agree(s, t, Len(s)) /\ Notes(s, t, Len(s))
       /\ \A j \in 1..Len(s) : j # owner => t[j].depth = s[j].depth
  <2>1. \A j \in 1..Len(s) : j \in 1..Len(g) /\ g[j] = s[j]
    BY <1>1, <1>9
  <2>2. \A j \in 1..Len(s) : Alike(s[j], t[j])
    BY <1>13, <2>1
  <2>3. Notes(s, t, Len(s))
    BY <1>13, <2>1 DEF Notes, Alike
  <2>4. \A j \in 1..Len(s) : j # owner => t[j].depth = s[j].depth
    BY <1>12, <2>1
  <2> QED BY <2>2, <2>3, <2>4 DEF Agree
<1>15. /\ Len(t) = Len(s) + 1 /\ Len(t) \in 1..Len(g)
       /\ t[Len(t)].kind = "interp" /\ t[Len(t)].program = p
       /\ t[Len(t)].invocation = owner /\ t[Len(t)].previous = activation
       /\ t[Len(t)].seen = {} /\ t[Len(t)].error = 0 /\ t[Len(t)].failing = 0
  <2>1. Len(g) \in 1..Len(g)
    BY <1>1, <1>9
  <2> QED BY <1>7, <1>9, <1>12, <1>13, <2>1 DEF Alike
<1>16. Joins(s, t, p, owner)
  <2>1. Mine(s, p) = {} => owner = Len(t)
    BY <1>4, <1>15
  <2>2. t[owner].depth = Cardinality(Mine(s, p)) + 1 /\ Cardinality(Mine(s, p)) < Limit
    BY <1>3, <1>4, <1>12
  <2> QED BY <1>4, <1>14, <1>15, <2>1, <2>2 DEF Joins
<1>17. Pointers(t, frames, D, c, sc, Len(t))
  BY <1>1, <1>12, <1>15, <1>16, PointersInterp
<1>18. Bodies(t)
  <2>1. Fits(s, t[Len(t)])
    BY <1>15 DEF Fits
  <2> QED BY <1>1, <1>12, <1>14, <1>15, <2>1, BodiesPush
<1>19. Errors(t, n) /\ Quiet(t)
  BY <1>1, <1>12, <1>14, <1>15, ErrorsPush
<1> QED BY <1>1, <1>12, <1>14, <1>15, <1>17, <1>18, <1>19 DEF Thread

\* The depth that the innermost interpreter counted is undone.
Undone(s, u) == u = [s EXCEPT ![s[Len(s)].invocation].depth = @ - 1]

\* InterpreterInvocation::invoke returns.
LEMMA ThreadReturn ==
  ASSUME NEW s, NEW frames, NEW D, NEW c, NEW sc, NEW a, NEW n, Thread(s, frames, D, c, sc, a, n),
         Len(s) > 1, s[Len(s)].kind = "interp",
         NEW u, Undone(s, u), NEW t, Leaves(u, Len(s) - 1, t)
  PROVE  /\ Thread(t, frames, D, c, sc, s[Len(s)].previous, n) /\ Quiet(t)
         /\ Len(t) = Len(s) - 1 /\ Agree(s, t, Len(t)) /\ Notes(s, t, Len(t))
<1>1. /\ s \in Stacks /\ Pointers(s, frames, D, c, sc, a) /\ Bodies(s) /\ Errors(s, n)
      /\ D \in Nat /\ n \in Nat /\ Len(s) \in Nat /\ Budget(s) /\ Len(s) \in 1..Len(s)
  BY StackFacts DEF Thread, Pointers
<1>2. PICK p \in Programs : p = s[Len(s)].program
  BY <1>1 DEF Bodies
<1>3. PICK owner : owner = s[Len(s)].invocation
  OBVIOUS
<1>4. /\ owner \in 1..Len(s)
      /\ s[owner].depth \in Nat /\ s[owner].depth # 0
  <2>1. Len(s) \in Mine(s, p)
    BY <1>1, <1>2 DEF Mine
  <2>2. owner \in Mine(s, p) /\ s[owner].depth = Cardinality(Mine(s, p))
    BY <1>1, <1>3, <2>1 DEF Budget
  <2>3. Cardinality(Mine(s, p)) \in Nat /\ Cardinality(Mine(s, p)) # 0
    BY <1>1, <2>1, MineFinite
  <2> QED BY <1>1, <2>2, <2>3, MineFinite
<1>5. PICK d \in Nat : d = s[owner].depth - 1
  BY <1>4
<1>6. Counts(s, owner, d, u)
  BY <1>3, <1>4, <1>5 DEF Counts, Undone
<1>7. /\ u \in Stacks /\ Len(u) = Len(s)
      /\ \A j \in 1..Len(s) : j # owner => u[j] = s[j]
      /\ u[owner].failing = s[owner].failing /\ u[owner].depth = d
      /\ u[owner].seen = s[owner].seen /\ u[owner].error = s[owner].error
      /\ Alike(s[owner], u[owner])
  BY <1>1, <1>4, <1>6, DepthFacts
<1>8. PICK k \in 0..Len(u) : k = Len(s) - 1 /\ k # 0 /\ Len(s) = k + 1
  BY <1>1, <1>7
<1>9. Leaves(u, k, t)
  BY <1>8
<1>10. t \in Stacks /\ Len(t) = k /\ \A i \in 1..k : t[i] = u[i]
  BY <1>7, <1>9, PopKeeps
<1>11. \A i \in 1..k : /\ Alike(s[i], t[i])
                       /\ t[i].seen = s[i].seen /\ t[i].error = s[i].error
                       /\ t[i].failing = s[i].failing
                       /\ t[i].depth = IF i = owner THEN s[i].depth - 1 ELSE s[i].depth
  <2>1. \A i \in 1..k : i \in 1..Len(s)
    BY <1>8
  <2>2. \A i \in 1..Len(s) : /\ Alike(s[i], u[i])
                             /\ u[i].seen = s[i].seen /\ u[i].error = s[i].error
                             /\ u[i].failing = s[i].failing
                             /\ u[i].depth = IF i = owner THEN s[i].depth - 1 ELSE s[i].depth
    BY <1>5, <1>7 DEF Alike
  <2> QED BY <1>10, <2>1, <2>2
<1>12. Agree(s, t, Len(t)) /\ Notes(s, t, Len(t))
  BY <1>10, <1>11 DEF Agree, Notes, Alike
<1>13. Pointers(t, frames, D, c, sc, s[Len(s)].previous)
  <2>1. \A i \in 1..Len(t) : t[i].depth = IF i = owner THEN s[i].depth - 1 ELSE s[i].depth
    BY <1>10, <1>11
  <2>2. Len(s) = Len(t) + 1 /\ s[Len(s)].program = p
    BY <1>2, <1>8, <1>10
  <2>3. Quits(s, t, p, owner)
    BY <1>3, <1>12, <2>1, <2>2 DEF Quits
  <2> QED BY <1>1, <1>10, <2>3, PointersReturn
<1>14. Bodies(t)
  <2>1. Len(t) # 0 /\ Len(t) <= Len(s)
    BY <1>8, <1>10
  <2> QED BY <1>1, <1>10, <1>12, <2>1, BodiesPop
<1>15. Errors(t, n) /\ Quiet(t)
  <2>1. Len(t) < Len(s) /\ n <= n
    BY <1>1, <1>8, <1>10
  <2> QED BY <1>1, <1>10, <1>12, <2>1, ErrorsPop
<1> QED BY <1>1, <1>8, <1>10, <1>12, <1>13, <1>14, <1>15 DEF Thread

-----------------------------------------------------------------------------
(* The invariant.                                                          *)

RawFrame == [sp : 1..MaxStack, previous : {"null", "invoke", "raw"} \X (0..MaxStack)]

\* The inductive invariant: the pointers, the errors and what lies on what, and a
\* boundary is never on top, because its native body starts with it.
IInv ==
  /\ Running
  /\ Len(stack) <= MaxStack
  /\ stack[Len(stack)].kind # "raw"
  /\ raw_frames \in Seq(RawFrame)
  /\ raw_depth <= Len(raw_frames)
  /\ errors <= MaxErrors

GatesOn(s) == {i \in 1..Len(s) : s[i].kind = "raw"}

\* There are as many raw frames in use as boundaries on the stack.
LEMMA GatesCounted ==
  ASSUME NEW s, NEW frames, NEW D, NEW c, NEW sc, NEW a, NEW n, Thread(s, frames, D, c, sc, a, n)
  PROVE  /\ D = Cardinality(GatesOn(s))
         /\ {frames[d].sp : d \in 1..D} = GatesOn(s)
         /\ D <= Len(s)
<1>1. /\ s \in Stacks /\ Len(s) \in Nat /\ D \in Nat
      /\ Checkpoints(s, At(frames, D), Back(frames, D), c)
  BY StackFacts DEF Thread, Pointers
<1>2. PICK at : at = At(frames, D) /\ at = [d \in 1..D |-> frames[d].sp]
  BY DEF At
<1> DEFINE gates == GatesOn(s)
<1>3. /\ \A d \in 1..D : at[d] \in gates
      /\ \A i \in gates : \E d \in 1..D : at[d] = i
      /\ \A d, e \in 1..D : d < e => at[d] < at[e]
  BY <1>1, <1>2, ZenonT(30) DEF Checkpoints, GatesOn
<1>4. at \in [1..D -> gates] /\ gates \subseteq 1..Len(s)
  BY <1>2, <1>3 DEF GatesOn
<1>5. ASSUME NEW d \in 1..D, NEW e \in 1..D, at[d] = at[e]
      PROVE  d = e
  <2>1. at[d] \in Nat
    BY <1>1, <1>3 DEF GatesOn
  <2>2. ~(d < e) /\ ~(e < d)
    BY <1>3, <1>5, <2>1
  <2> QED BY <2>2
<1>6. at \in Bijection(1..D, gates)
  <2> HIDE DEF gates
  <2>1. \A d, e \in 1..D : at[d] = at[e] => d = e
    BY <1>5
  <2>2. at \in Injection(1..D, gates)
    BY <1>4, <2>1 DEF Injection, IsInjective
  <2>3. at \in Surjection(1..D, gates)
    BY <1>3, <1>4 DEF Surjection
  <2> QED BY <2>2, <2>3 DEF Bijection
<1>7. Cardinality(gates) = D
  <2> HIDE DEF gates
  <2> QED BY <1>1, <1>6, FS_CountingElements DEF ExistsBijection
<1>8. D <= Len(s)
  <2>1. IsFiniteSet(1..Len(s)) /\ Cardinality(1..Len(s)) = Len(s)
    <3>1. PICK m \in Int : m = Len(s) /\ m >= 0
      BY <1>1
    <3>2. 1 \in Int /\ IsFiniteSet(1..m) /\ Cardinality(1..m) = IF 1 > m THEN 0 ELSE m - 1 + 1
      BY FS_Interval
    <3>3. Cardinality(1..m) = m
      BY <3>1, <3>2
    <3> QED BY <3>1, <3>2, <3>3
  <2>2. Cardinality(gates) <= Cardinality(1..Len(s))
    <3> HIDE DEF gates
    <3> QED BY <1>4, <2>1, FS_Subset
  <2> QED BY <1>7, <2>1, <2>2
<1>9. {frames[d].sp : d \in 1..D} = gates
  BY <1>2, <1>3
<1> QED BY <1>7, <1>8, <1>9

\* NativeBoundary::enter fills the raw frame after those in use.
LEMMA FillsFacts ==
  ASSUME IInv, Len(stack) < MaxStack
  PROVE  /\ Fills(raw_frames, raw_depth, RawFramesAfterEnter(stack), Len(stack) + 1, current)
         /\ RawFramesAfterEnter(stack) \in Seq(RawFrame)
         /\ raw_depth + 1 <= Len(RawFramesAfterEnter(stack))
         /\ \A d \in 1..raw_depth : RawFramesAfterEnter(stack)[d] = raw_frames[d]
<1>1. /\ Len(stack) \in Nat \ {0} /\ MaxStack \in Nat /\ raw_depth \in Nat
      /\ Len(raw_frames) \in Nat
      /\ raw_frames \in Seq(RawFrame) /\ raw_depth <= Len(raw_frames)
  BY ThreadTypes, ProgramAssumption DEF IInv, Running, Thread
<1>2. raw_depth <= MaxStack
  <2>1. raw_depth <= Len(stack) /\ Len(stack) <= MaxStack
    BY GatesCounted DEF IInv, Running
  <2> QED BY <1>1, <2>1
<1>3. current \in {"null", "invoke", "raw"} \X (0..MaxStack)
  <2>1. \/ current = Null
        \/ \E k \in 1..Len(stack) : current = <<"invoke", k>>
        \/ \E d \in 1..raw_depth : current = <<"raw", d>>
    BY ThreadTypes DEF IInv, Running
  <2>2. \A k \in 1..Len(stack) : k \in 0..MaxStack
    BY <1>1
  <2>3. \A d \in 1..raw_depth : d \in 0..MaxStack
    BY <1>1, <1>2
  <2> QED BY <1>1, <2>1, <2>2, <2>3 DEF Null
<1>4. PICK f : f = [sp |-> Len(stack) + 1, previous |-> current]
  OBVIOUS
<1>5. f \in RawFrame
  BY <1>1, <1>3, <1>4 DEF RawFrame
<1>6. CASE raw_depth = Len(raw_frames)
  <2>1. RawFramesAfterEnter(stack) = Append(raw_frames, f)
    BY <1>4, <1>6 DEF RawFramesAfterEnter
  <2>2. /\ Append(raw_frames, f) \in Seq(RawFrame)
        /\ Len(Append(raw_frames, f)) = raw_depth + 1
        /\ Append(raw_frames, f)[raw_depth + 1] = f
        /\ \A d \in 1..raw_depth : Append(raw_frames, f)[d] = raw_frames[d]
    BY <1>1, <1>5, <1>6
  <2> QED BY <1>1, <1>4, <2>1, <2>2 DEF Fills
<1>7. CASE raw_depth # Len(raw_frames)
  <2>1. PICK k \in 1..Len(raw_frames) : k = raw_depth + 1
    BY <1>1, <1>7
  <2>2. RawFramesAfterEnter(stack) = [raw_frames EXCEPT ![k] = f]
    BY <1>4, <1>7, <2>1 DEF RawFramesAfterEnter
  <2>3. /\ [raw_frames EXCEPT ![k] = f] \in Seq(RawFrame)
        /\ Len([raw_frames EXCEPT ![k] = f]) = Len(raw_frames)
        /\ \A j \in 1..Len(raw_frames) :
             [raw_frames EXCEPT ![k] = f][j] = IF j = k THEN f ELSE raw_frames[j]
    BY <1>1, <1>5, ExceptSeq
  <2>4. \A d \in 1..raw_depth : d \in 1..Len(raw_frames) /\ d # k
    BY <1>1, <2>1
  <2>5. k <= Len(raw_frames)
    BY <1>1
  <2> QED BY <1>1, <1>4, <2>1, <2>2, <2>3, <2>4, <2>5 DEF Fills
<1> QED BY <1>6, <1>7

\* A thread starts in its host.
LEMMA InitIInv == Init => IInv
<1> SUFFICES ASSUME Init PROVE IInv
  OBVIOUS
<1>1. PICK h : h = Plain("host", "none")
  OBVIOUS
<1>2. /\ h \in Activation /\ h.kind = "host" /\ h.seen = {} /\ h.error = 0 /\ h.failing = 0
      /\ h.previous = 0
  BY <1>1, PlainFacts
<1>3. /\ stack = <<h>> /\ stack \in Stacks /\ Len(stack) = 1 /\ stack[1] = h
      /\ current = Null /\ raw_frames = <<>> /\ raw_depth = 0
      /\ scope = 0 /\ activation = 0 /\ errors = 0
  BY <1>1, <1>2 DEF Init, Stacks
<1>4. \A i \in 1..1 : i = 1
  OBVIOUS
<1>5. \A kinds : "host" \notin kinds => IsLast(stack, 1, kinds, 0)
  BY <1>2, <1>3, <1>4 DEF IsLast
<1>6. Checkpoints(stack, At(raw_frames, raw_depth), Back(raw_frames, raw_depth), current)
  <2>1. IsLast(stack, 1, {"invoke", "raw"}, 0)
    BY <1>5
  <2>2. IsCheckpoint(stack, 1, At(raw_frames, raw_depth), Null)
    BY <2>1 DEF IsCheckpoint
  <2>3. \A d : d \notin DOMAIN At(raw_frames, raw_depth)
    BY <1>3 DEF At
  <2> QED BY <1>2, <1>3, <1>4, <2>2, <2>3 DEF Checkpoints
<1>7. Chain(stack, {"invoke", "scope"}, Outer(stack), scope)
  <2>1. IsLast(stack, 1, {"invoke", "scope"}, 0)
    BY <1>5
  <2> QED BY <1>2, <1>3, <1>4, <2>1 DEF Chain
<1>8. Interpreters(stack, activation)
  <2>1. IsLast(stack, 1, {"interp"}, 0)
    BY <1>5
  <2> QED BY <1>2, <1>3, <1>4, <2>1 DEF Chain, Interpreters
<1>9. Budget(stack)
  BY <1>2, <1>3, <1>4 DEF Budget, Mine
<1>10. Bodies(stack)
  BY <1>2, <1>3, <1>4 DEF Bodies
<1>11. Errors(stack, errors)
  BY <1>2, <1>3, <1>4 DEF Errors, Seen
<1>12. Running
  BY <1>3, <1>6, <1>7, <1>8, <1>9, <1>10, <1>11 DEF Running, Thread, Pointers
<1> QED BY <1>2, <1>3, <1>12, ProgramAssumption DEF IInv

-----------------------------------------------------------------------------
(* Every action keeps the invariant.                                       *)

\* What the invariant says of the innermost activation.
LEMMA IFacts ==
  ASSUME IInv
  PROVE  /\ stack \in Stacks /\ Len(stack) \in Nat \ {0} /\ Sp = Len(stack)
         /\ Top = stack[Len(stack)] /\ Top \in Activation /\ Top.kind # "raw"
         /\ Bodies(stack) /\ Errors(stack, errors) /\ Seen(stack, errors)
         /\ Running
         /\ raw_depth \in Nat /\ errors \in Nat
         /\ Top.failing = 0 => Quiet(stack)
         /\ Top.kind # "interp" => Quiet(stack)
         /\ Above(stack)
<1>1. /\ stack \in Stacks /\ Bodies(stack) /\ Errors(stack, errors)
      /\ Running /\ raw_depth \in Nat /\ errors \in Nat
  BY DEF IInv, Running, Thread
<1>2. Len(stack) \in Nat \ {0} /\ Sp = Len(stack) /\ Len(stack) \in 1..Len(stack)
  BY <1>1, StackFacts DEF Bodies, Sp
<1>3. Top = stack[Len(stack)] /\ Top \in Activation /\ Top.kind # "raw"
  BY <1>1, <1>2, StackFacts DEF Top, IInv
<1>4. \A i \in 1..Len(stack) : stack[i].failing # 0 => i = Len(stack) /\ stack[i].kind = "interp"
  BY <1>1 DEF Errors
<1>5. (Top.failing = 0 => Quiet(stack)) /\ (Top.kind # "interp" => Quiet(stack))
  BY <1>3, <1>4 DEF Quiet
<1>6. Above(stack)
  BY <1>2 DEF Above
<1> QED BY <1>1, <1>2, <1>3, <1>5, <1>6 DEF Errors

\* The host calls native code.
LEMMA HostCallsNativeStep ==
  ASSUME IInv, NEW p \in Programs, HostCallsNative(p)
  PROVE  IInv' /\ Follows(Cpp(stack), Cpp(stack'))
<1>1. /\ Running /\ Quiet(stack) /\ Top.kind # "raw" /\ Len(stack) \in Nat
      /\ Sp = Len(stack) /\ stack[Len(stack)].kind # "raw"
  BY IFacts DEF HostCallsNative
<1>2. PICK t : t = Checked(p, stack) /\ t = stack'
  BY DEF HostCallsNative, EnterChecked
<1>3. /\ Thread(t, raw_frames, raw_depth,
                IF p \in Boundary THEN <<"invoke", Len(stack) + 1>> ELSE current,
                Len(stack) + 1, activation, errors)
      /\ TwoMore(stack, t, IF p \in Boundary THEN "invoke" ELSE "scope", "native")
  BY <1>1, <1>2, ThreadChecked DEF Running
<1>4. Running'
  BY <1>2, <1>3 DEF HostCallsNative, EnterChecked, Running
<1>5. Len(t) <= MaxStack
  BY <1>1, <1>3 DEF HostCallsNative, Room, TwoMore
<1>6. Follows(Cpp(stack), Cpp(t))
  <2>1. PICK k \in CppKinds : k = IF p \in Boundary THEN "invoke" ELSE "scope"
    BY DEF CppKinds
  <2>2. TwoMore(stack, t, k, "native")
    BY <1>3, <2>1
  <2> QED BY <1>1, <1>3, <2>2, CppChecked DEF Thread, Running
<1> QED BY <1>2, <1>3, <1>4, <1>5, <1>6 DEF IInv, HostCallsNative, TwoMore

\* The stack when native code of p has been called without a gate, and through one.
Ungated(p, t) == t = Append(stack, Plain("native", p))
Gated(p, t) == t = stack \o <<Plain("raw", p), Plain("native", p)>>

\* A call that needs no gate.
LEMMA PlainCall ==
  ASSUME IInv, NEW p \in Programs, p \notin Boundary, Quiet(stack),
         NEW t, Ungated(p, t)
  PROVE  /\ Thread(t, raw_frames, raw_depth, current, scope, activation, errors) /\ Quiet(t)
         /\ Len(t) = Len(stack) + 1 /\ t[Len(t)].kind = "native"
         /\ Above(t)
<1>1. PICK x : x = Plain("native", p)
  OBVIOUS
<1>2. Blank(x) /\ x.kind = "native" /\ x.program = p
  BY <1>1, PlainFacts DEF Blank
<1>3. Puts(stack, x, t)
  BY <1>1 DEF Puts, Ungated
<1>4. Fits(stack, x)
  BY <1>2, IFacts DEF Fits
<1>5. /\ Thread(t, raw_frames, raw_depth, current, scope, activation, errors) /\ Quiet(t)
      /\ Len(t) = Len(stack) + 1 /\ t[Len(t)] = x
      /\ \A i \in 1..Len(stack) : t[i] = stack[i]
  <2>1. Thread(stack, raw_frames, raw_depth, current, scope, activation, errors)
    BY IFacts DEF Running
  <2> QED BY <1>2, <1>3, <1>4, <2>1, ThreadBody
<1>6. Above(t)
  <2>1. \A i \in 1..Len(t) : i > Len(stack) => i = Len(t)
    BY <1>5, IFacts
  <2>2. Len(stack) <= Len(t)
    BY <1>5, IFacts
  <2> QED BY <1>2, <1>5, <2>1, <2>2 DEF Above
<1> QED BY <1>2, <1>5, <1>6

\* A call through the gate.
LEMMA GatedCall ==
  ASSUME IInv, NEW p \in Programs, Quiet(stack), Len(stack) < MaxStack,
         NEW t, Gated(p, t)
  PROVE  /\ Thread(t, RawFramesAfterEnter(stack), raw_depth + 1, <<"raw", raw_depth + 1>>,
                   scope, activation, errors)
         /\ Quiet(t)
         /\ TwoMore(stack, t, "raw", "native")
         /\ Above(t)
<1>1. PICK x, y : x = Plain("raw", p) /\ y = Plain("native", p)
  OBVIOUS
<1>2. /\ Blank(x) /\ x.kind = "raw" /\ x.program = p /\ x \in Activation
      /\ Blank(y) /\ y.kind = "native" /\ y.program = p /\ y \in Activation
  BY <1>1, PlainFacts DEF Blank
<1>3. PICK u : Puts(stack, x, u)
  BY DEF Puts
<1>4. Puts(u, y, t)
  <2>1. stack \o <<x, y>> = Append(Append(stack, x), y)
    BY <1>2, IFacts, TwoPushes
  <2> QED BY <1>1, <1>3, <2>1 DEF Puts, Gated
<1>5. PICK filled : filled = RawFramesAfterEnter(stack)
  OBVIOUS
<1>6. Fills(raw_frames, raw_depth, filled, Len(stack) + 1, current)
  BY <1>5, FillsFacts
<1>7. /\ Thread(stack, raw_frames, raw_depth, current, scope, activation, errors)
      /\ Enters(stack, raw_frames, raw_depth, current, filled, x, u, y, t)
  BY <1>2, <1>3, <1>4, <1>6, IFacts DEF Running, Enters
<1>8. /\ Thread(t, filled, raw_depth + 1, <<"raw", raw_depth + 1>>, scope, activation, errors)
      /\ Quiet(t)
      /\ Len(t) = Len(stack) + 2 /\ t[Len(t)] = y /\ t[Len(stack) + 1] = x
      /\ Extends(stack, t)
  BY <1>7, ThreadEnter
<1>9. Above(t)
  <2>1. \A i \in 1..Len(t) : i > Len(stack) => i = Len(t) \/ i = Len(stack) + 1
    BY <1>8, IFacts
  <2>2. Len(stack) <= Len(t)
    BY <1>8, IFacts
  <2> QED BY <1>2, <1>8, <2>1, <2>2 DEF Above, Extends
<1>10. TwoMore(stack, t, "raw", "native")
  BY <1>2, <1>8, <1>9 DEF TwoMore, Above
<1> QED BY <1>5, <1>8, <1>9, <1>10

\* Native code calls an address.
LEMMA CallsAddressStep ==
  ASSUME IInv, NEW p \in Programs, CallsAddress(p)
  PROVE  IInv' /\ Follows(Cpp(stack), Cpp(stack'))
<1>1. /\ Running /\ Quiet(stack) /\ Len(stack) \in Nat /\ Sp = Len(stack)
      /\ Len(stack) + 2 <= MaxStack
  BY IFacts DEF CallsAddress, Room
<1>2. UNCHANGED <<scope, activation, errors>>
  BY DEF CallsAddress
<1>3. CASE p \in Boundary
  <2>1. PICK t : Gated(p, t)
    BY DEF Gated
  <2>2. /\ stack' = t /\ raw_frames' = RawFramesAfterEnter(stack)
        /\ raw_depth' = raw_depth + 1 /\ current' = <<"raw", raw_depth + 1>>
    <3>1. PICK x \in Activation, y \in Activation : x = Plain("raw", p) /\ y = Plain("native", p)
      BY PlainFacts
    <3>2. stack \o <<x>> \o <<y>> = stack \o <<x, y>>
      <4>1. Append(stack, x) = stack \o <<x>> /\ Append(stack, x) \in Stacks
        BY <3>1, IFacts, PushFacts, AppendIsConcat DEF Stacks
      <4>2. Append(Append(stack, x), y) = Append(stack, x) \o <<y>>
        BY <3>1, <4>1, AppendIsConcat DEF Stacks
      <4> QED BY <3>1, <4>1, <4>2, IFacts, TwoPushes
    <3> QED BY <1>3, <2>1, <3>1, <3>2 DEF CallsAddress, enter, Gated
  <2>3. Len(stack) < MaxStack
    BY <1>1, ProgramAssumption
  <2>4. /\ Thread(t, RawFramesAfterEnter(stack), raw_depth + 1, <<"raw", raw_depth + 1>>,
                  scope, activation, errors)
        /\ TwoMore(stack, t, "raw", "native")
    BY <1>1, <2>1, <2>3, GatedCall
  <2>5. /\ RawFramesAfterEnter(stack) \in Seq(RawFrame)
        /\ raw_depth + 1 <= Len(RawFramesAfterEnter(stack))
    BY <2>3, FillsFacts
  <2>6. Cpp(t) = Cpp(stack)
    BY <1>1, <2>4, CppGate DEF Thread, Running
  <2> QED BY <1>1, <1>2, <2>2, <2>4, <2>5, <2>6 DEF IInv, Running, TwoMore, Follows
<1>4. CASE p \notin Boundary
  <2>1. PICK t : Ungated(p, t)
    BY DEF Ungated
  <2>2. stack' = t /\ UNCHANGED <<raw_frames, raw_depth, current>>
    BY <1>4, <2>1 DEF CallsAddress, Ungated
  <2>3. /\ Thread(t, raw_frames, raw_depth, current, scope, activation, errors)
        /\ Len(t) = Len(stack) + 1 /\ t[Len(t)].kind = "native" /\ Above(t)
    BY <1>1, <1>4, <2>1, PlainCall
  <2>4. Len(t) <= MaxStack
    BY <1>1, <2>3, ProgramAssumption
  <2>5. OneMore(stack, t, "native")
    BY <2>3 DEF OneMore, Above
  <2>6. Cpp(t) = Cpp(stack)
    BY <1>1, <2>3, <2>5, CppBody DEF Thread, Running
  <2> QED BY <1>2, <2>2, <2>3, <2>4, <2>6 DEF IInv, Running, Follows
<1> QED BY <1>3, <1>4

Starts(p, s, t) ==
  \E role \in {"none", "body", "host", "native"}, reports \in BOOLEAN :
    t = Interpret(p, role, reports, s)

\* An interpreter that starts on top of the stack, or of the entry it was called by.
LEMMA InterpCall ==
  ASSUME IInv, NEW p \in Programs, DepthOf(p) < Limit,
         NEW s, NEW frames, NEW D, NEW c, Thread(s, frames, D, c, scope, activation, errors),
         Quiet(s), s[Len(s)].kind # "raw", Above(s),
         NEW t, Starts(p, s, t)
  PROVE  /\ Thread(t, frames, D, c, scope, Len(s) + 1, errors) /\ Quiet(t)
         /\ Len(t) = Len(s) + 1 /\ t[Len(t)].kind = "interp" /\ Agree(s, t, Len(s))
<1>1. Running
  BY IFacts
<1>2. PICK role \in {"none", "body", "host", "native"}, reports \in BOOLEAN :
        t = Interpret(p, role, reports, s)
  BY DEF Starts
<1> QED BY <1>1, <1>2, ThreadInterp

\* The host calls the interpreter.
LEMMA HostCallsInterpStep ==
  ASSUME IInv, NEW p \in Programs, HostCallsInterp(p)
  PROVE  IInv' /\ Follows(Cpp(stack), Cpp(stack'))
<1>1. /\ Running /\ Quiet(stack) /\ Len(stack) \in Nat /\ Sp = Len(stack)
      /\ Len(stack) + 1 <= MaxStack /\ Above(stack) /\ DepthOf(p) < Limit
      /\ stack[Len(stack)].kind # "raw"
  BY IFacts DEF HostCallsInterp, Room
<1>2. PICK t : Starts(p, stack, t) /\ t = stack'
  BY <1>1 DEF HostCallsInterp, Starts
<1>3. /\ stack' = t /\ activation' = Len(stack) + 1
      /\ UNCHANGED <<current, raw_frames, raw_depth, scope, errors>>
  BY <1>1, <1>2 DEF HostCallsInterp
<1>4. /\ Thread(t, raw_frames, raw_depth, current, scope, Len(stack) + 1, errors)
      /\ Len(t) = Len(stack) + 1 /\ t[Len(t)].kind = "interp" /\ Agree(stack, t, Len(stack))
  <2>1. Thread(stack, raw_frames, raw_depth, current, scope, activation, errors)
    BY <1>1 DEF Running
  <2> QED BY <1>1, <1>2, <2>1, InterpCall
<1>5. Follows(Cpp(stack), Cpp(t))
  <2>1. OneMore(stack, t, "interp") /\ "interp" \in CppKinds
    BY <1>4 DEF OneMore, Agree, Alike, CppKinds
  <2> QED BY <1>1, <1>4, <2>1, CppPush DEF Thread, Running
<1> QED BY <1>1, <1>3, <1>4, <1>5 DEF IInv, Running

\* The native entry of an interpreted function is called.
LEMMA EntryCallsInterpStep ==
  ASSUME IInv, NEW p \in Programs, EntryCallsInterp(p)
  PROVE  IInv' /\ Follows(Cpp(stack), Cpp(stack'))
<1>1. /\ Running /\ Quiet(stack) /\ Len(stack) \in Nat /\ Sp = Len(stack)
      /\ Len(stack) + 3 <= MaxStack /\ DepthOf(p) < Limit /\ MaxStack \in Nat
  BY IFacts, ProgramAssumption DEF EntryCallsInterp, Room
<1>2. UNCHANGED <<scope, errors>>
  BY DEF EntryCallsInterp
<1>3. CASE p \in Boundary
  <2>1. PICK s : Gated(p, s)
    BY DEF Gated
  <2>2. PICK t : Starts(p, s, t) /\ t = stack'
    BY <1>3, <2>1 DEF EntryCallsInterp, Gated, Starts
  <2>3. /\ stack' = t /\ raw_frames' = RawFramesAfterEnter(stack)
        /\ raw_depth' = raw_depth + 1 /\ current' = <<"raw", raw_depth + 1>>
        /\ activation' = Len(stack) + 3
    BY <1>1, <1>3, <2>1, <2>2 DEF EntryCallsInterp
  <2>4. Len(stack) < MaxStack
    BY <1>1
  <2>5. PICK filled, D, c : /\ filled = RawFramesAfterEnter(stack) /\ D = raw_depth + 1
                            /\ c = <<"raw", raw_depth + 1>>
    OBVIOUS
  <2>6. /\ Thread(s, filled, D, c, scope, activation, errors)
        /\ Quiet(s) /\ TwoMore(stack, s, "raw", "native") /\ Above(s)
        /\ Len(s) = Len(stack) + 2 /\ s[Len(s)].kind # "raw"
    BY <1>1, <2>1, <2>4, <2>5, GatedCall DEF TwoMore
  <2>7. /\ Thread(t, filled, D, c, scope, Len(s) + 1, errors)
        /\ Len(t) = Len(s) + 1 /\ t[Len(t)].kind = "interp" /\ Agree(s, t, Len(s))
    BY <1>1, <2>2, <2>6, InterpCall
  <2>8. /\ RawFramesAfterEnter(stack) \in Seq(RawFrame)
        /\ raw_depth + 1 <= Len(RawFramesAfterEnter(stack))
    BY <2>4, FillsFacts
  <2>9. Len(s) + 1 = Len(stack) + 3 /\ Len(t) <= MaxStack
    BY <1>1, <2>6, <2>7
  <2>10. Cpp(s) = Cpp(stack)
    BY <1>1, <2>6, CppGate DEF Thread, Running
  <2>11. OneMore(s, t, "interp") /\ "interp" \in CppKinds
    BY <2>7 DEF OneMore, Agree, Alike, CppKinds
  <2>12. Follows(Cpp(s), Cpp(t))
    BY <2>6, <2>7, <2>11, CppPush DEF Thread
  <2> QED BY <1>2, <2>3, <2>5, <2>7, <2>8, <2>9, <2>10, <2>12 DEF IInv, Running
<1>4. CASE p \notin Boundary
  <2>1. PICK s : Ungated(p, s)
    BY DEF Ungated
  <2>2. PICK t : Starts(p, s, t) /\ t = stack'
    BY <1>4, <2>1 DEF EntryCallsInterp, Ungated, Starts
  <2>3. /\ stack' = t /\ activation' = Len(stack) + 2
        /\ UNCHANGED <<raw_frames, raw_depth, current>>
    BY <1>1, <1>4, <2>1, <2>2 DEF EntryCallsInterp
  <2>4. /\ Thread(s, raw_frames, raw_depth, current, scope, activation, errors)
        /\ Quiet(s) /\ Len(s) = Len(stack) + 1 /\ s[Len(s)].kind # "raw" /\ Above(s)
        /\ s[Len(s)].kind = "native"
    BY <1>1, <1>4, <2>1, PlainCall
  <2>5. /\ Thread(t, raw_frames, raw_depth, current, scope, Len(s) + 1, errors)
        /\ Len(t) = Len(s) + 1 /\ t[Len(t)].kind = "interp" /\ Agree(s, t, Len(s))
    BY <1>1, <2>2, <2>4, InterpCall
  <2>6. Len(s) + 1 = Len(stack) + 2 /\ Len(t) <= MaxStack
    BY <1>1, <2>4, <2>5
  <2>7. OneMore(stack, s, "native")
    BY <2>4 DEF OneMore, Above
  <2>8. Cpp(s) = Cpp(stack)
    BY <1>1, <2>4, <2>7, CppBody DEF Thread, Running
  <2>9. OneMore(s, t, "interp") /\ "interp" \in CppKinds
    BY <2>5 DEF OneMore, Agree, Alike, CppKinds
  <2>10. Follows(Cpp(s), Cpp(t))
    BY <2>4, <2>5, <2>9, CppPush DEF Thread
  <2> QED BY <1>2, <2>3, <2>5, <2>6, <2>8, <2>10 DEF IInv, Running
<1> QED BY <1>3, <1>4

\* The frames above those in use do not matter.
LEMMA ThreadFrames ==
  ASSUME NEW s, NEW frames, NEW D, NEW c, NEW sc, NEW a, NEW n, Thread(s, frames, D, c, sc, a, n),
         NEW others, \A d \in 1..D : others[d] = frames[d]
  PROVE  Thread(s, others, D, c, sc, a, n)
<1>1. At(others, D) = At(frames, D) /\ Back(others, D) = Back(frames, D)
  BY DEF At, Back
<1> QED BY <1>1 DEF Thread, Pointers

\* An error is raised: it is new, and later than all before.
LEMMA Raised ==
  ASSUME IInv, Quiet(stack),
         NEW t, t = Reported(stack, errors + 1)
  PROVE  /\ Thread(t, raw_frames, raw_depth, current, scope, activation, errors + 1)
         /\ Quiet(t) /\ Len(t) = Len(stack) /\ Agree(stack, t, Len(stack))
         /\ t[Len(t)].kind = Top.kind
<1>1. /\ Thread(stack, raw_frames, raw_depth, current, scope, activation, errors)
      /\ errors \in Nat /\ Seen(stack, errors) /\ stack \in Stacks
      /\ Len(stack) \in Nat \ {0} /\ Top = stack[Len(stack)]
  BY IFacts DEF Running
<1>2. PICK m \in Nat : m = errors + 1 /\ errors <= m /\ m \in 1..m
  BY <1>1
<1>3. Later(stack, m)
  BY <1>1, <1>2, NewIsLater
<1>4. t = Reported(stack, m)
  BY <1>2
<1>5. /\ Thread(t, raw_frames, raw_depth, current, scope, activation, m) /\ Quiet(t)
      /\ Len(t) = Len(stack) /\ Agree(stack, t, Len(stack))
  BY <1>1, <1>2, <1>3, <1>4, ThreadReport
<1>6. t[Len(t)].kind = Top.kind
  <2>1. Len(stack) \in 1..Len(stack)
    BY <1>1
  <2> QED BY <1>1, <1>5, <2>1 DEF Agree, Alike
<1> QED BY <1>2, <1>5, <1>6

\* At the depth limit a native entry reports the error, and its gate has come and gone.
LEMMA EntryRefusedStep ==
  ASSUME IInv, NEW p \in Programs, EntryRefused(p)
  PROVE  IInv' /\ Follows(Cpp(stack), Cpp(stack'))
<1>1. /\ Quiet(stack) /\ Len(stack) \in Nat /\ Sp = Len(stack) /\ Top.kind # "raw"
      /\ Len(stack) + 3 <= MaxStack /\ MaxStack \in Nat
      /\ errors \in Nat /\ MaxErrors \in Nat /\ errors < MaxErrors
      /\ Len(raw_frames) \in Nat /\ raw_depth \in Nat /\ raw_depth <= Len(raw_frames)
  BY IFacts, ProgramAssumption DEF EntryRefused, Room, IInv
<1>2. PICK t : t = Reported(stack, errors + 1) /\ t = stack'
  BY DEF EntryRefused
<1>3. /\ Thread(t, raw_frames, raw_depth, current, scope, activation, errors + 1)
      /\ Len(t) = Len(stack) /\ t[Len(t)].kind # "raw" /\ Agree(stack, t, Len(stack))
  BY <1>1, <1>2, Raised
<1>4. PICK filled : filled = IF p \in Boundary THEN RawFramesAfterEnter(stack) ELSE raw_frames
  OBVIOUS
<1>5. /\ \A d \in 1..raw_depth : filled[d] = raw_frames[d]
      /\ filled \in Seq(RawFrame) /\ raw_depth <= Len(filled)
  <2>1. CASE p \in Boundary
    <3>1. Len(stack) < MaxStack
      BY <1>1
    <3>2. filled = RawFramesAfterEnter(stack)
      BY <1>4, <2>1
    <3>3. /\ filled \in Seq(RawFrame) /\ raw_depth + 1 <= Len(filled)
          /\ \A d \in 1..raw_depth : filled[d] = raw_frames[d]
      BY <3>1, <3>2, FillsFacts
    <3>4. Len(filled) \in Nat
      BY <3>3
    <3> QED BY <1>1, <3>3, <3>4
  <2>2. CASE p \notin Boundary
    BY <1>4, <2>2 DEF IInv
  <2> QED BY <2>1, <2>2
<1>6. Thread(t, filled, raw_depth, current, scope, activation, errors + 1)
  BY <1>3, <1>5, ThreadFrames
<1>7. /\ raw_frames' = filled /\ errors' = errors + 1
      /\ UNCHANGED <<current, raw_depth, scope, activation>>
  BY <1>4 DEF EntryRefused
<1>8. errors + 1 <= MaxErrors
  BY <1>1
<1>9. Cpp(t) = Cpp(stack)
  <2>1. SameKinds(stack, t)
    BY <1>3 DEF SameKinds, Agree, Alike
  <2> QED BY <1>3, <2>1, CppSame, IFacts DEF Thread
<1> QED BY <1>1, <1>2, <1>3, <1>5, <1>6, <1>7, <1>8, <1>9 DEF IInv, Running, Follows

\* The interpreter calls a body, the host or native code.
LEMMA InterpCallsStep ==
  ASSUME IInv, NEW role \in {"body", "host", "native"}, InterpCalls(role)
  PROVE  IInv' /\ Follows(Cpp(stack), Cpp(stack'))
<1>1. PICK p : p = Top.program
  OBVIOUS
<1>2. /\ Quiet(stack) /\ Len(stack) \in Nat \ {0} /\ Sp = Len(stack) /\ Above(stack)
      /\ MaxStack \in Nat /\ DepthOf(p) < Limit
      /\ Top = stack[Len(stack)] /\ Top.kind = "interp" /\ Bodies(stack)
      /\ Thread(stack, raw_frames, raw_depth, current, scope, activation, errors)
  BY <1>1, IFacts, ProgramAssumption DEF InterpCalls, Interpreter, Running
<1>3. p \in Programs
  BY <1>1, <1>2 DEF Bodies
<1>4. PICK s : s = Interpret(p, role, FALSE, stack)
  OBVIOUS
<1>5. Starts(p, stack, s)
  BY <1>4 DEF Starts
<1>6. stack[Len(stack)].kind # "raw"
  BY <1>2
<1>7. /\ Thread(s, raw_frames, raw_depth, current, scope, Len(stack) + 1, errors) /\ Quiet(s)
      /\ Len(s) = Len(stack) + 1 /\ s[Len(s)].kind = "interp" /\ Agree(stack, s, Len(stack))
      /\ s \in Stacks
  <2>1. /\ Thread(s, raw_frames, raw_depth, current, scope, Len(stack) + 1, errors) /\ Quiet(s)
        /\ Len(s) = Len(stack) + 1 /\ s[Len(s)].kind = "interp" /\ Agree(stack, s, Len(stack))
    BY <1>2, <1>3, <1>5, <1>6, InterpCall
  <2> QED BY <2>1 DEF Thread
<1>8. activation' = Len(stack) + 1 /\ UNCHANGED <<raw_frames, raw_depth, errors>>
  BY <1>2 DEF InterpCalls
<1>9. /\ Cpp(s) = Append(Cpp(stack), "interp") /\ "interp" \in CppKinds
      /\ Cpp(stack) \in Seq(CppKinds)
  <2>1. OneMore(stack, s, "interp")
    BY <1>7 DEF OneMore, Agree, Alike
  <2>2. Cpp(s) = Joined(Cpp(stack), "interp")
    BY <1>7, <2>1, CppOneMore, IFacts
  <2> QED BY <2>2, CppTypes, IFacts DEF Joined, CppKinds
<1>10. CASE role = "body"
  <2>1. /\ Room(1) /\ stack' = s /\ UNCHANGED <<current, scope>>
    BY <1>1, <1>4, <1>10 DEF InterpCalls
  <2>2. Len(s) <= MaxStack
    BY <1>2, <1>7, <2>1 DEF Room
  <2>3. Follows(Cpp(stack), Cpp(s))
    BY <1>9, OneCall
  <2> QED BY <1>7, <1>8, <2>1, <2>2, <2>3 DEF IInv, Running
<1>11. CASE role = "host"
  <2>1. PICK x : x = Plain("host", "none")
    OBVIOUS
  <2>2. Blank(x) /\ x.kind = "host"
    BY <2>1, PlainFacts DEF Blank
  <2>3. PICK t : Puts(s, x, t) /\ t = stack'
    BY <1>1, <1>4, <1>11, <2>1 DEF InterpCalls, Puts
  <2>4. Room(2) /\ UNCHANGED <<current, scope>>
    BY <1>11 DEF InterpCalls
  <2>5. Fits(s, x)
    BY <1>7, <2>2 DEF Fits
  <2>6. /\ Thread(t, raw_frames, raw_depth, current, scope, Len(stack) + 1, errors)
        /\ Len(t) = Len(s) + 1 /\ t[Len(t)] = x /\ \A i \in 1..Len(s) : t[i] = s[i]
    BY <1>7, <2>2, <2>3, <2>5, ThreadBody
  <2>7. Len(t) <= MaxStack
    BY <1>2, <1>7, <2>4, <2>6 DEF Room
  <2>8. Cpp(t) = Append(Append(Cpp(stack), "interp"), "host") /\ "host" \in CppKinds
    <3>1. OneMore(s, t, "host")
      BY <2>2, <2>6 DEF OneMore
    <3>2. Cpp(t) = Joined(Cpp(s), "host")
      BY <1>7, <2>6, <3>1, CppOneMore DEF Thread
    <3> QED BY <1>9, <3>2 DEF Joined, CppKinds
  <2>9. Follows(Cpp(stack), Cpp(t))
    BY <1>9, <2>8, TwoCalls
  <2> QED BY <1>8, <2>2, <2>3, <2>4, <2>6, <2>7, <2>9 DEF IInv, Running
<1>12. CASE role = "native"
  <2>1. Room(3) /\ EnterChecked(p, s)
    BY <1>1, <1>4, <1>12 DEF InterpCalls
  <2>2. PICK t : t = Checked(p, s) /\ t = stack'
    BY <2>1 DEF EnterChecked
  <2>3. PICK c, k : /\ c = IF p \in Boundary THEN <<"invoke", Len(s) + 1>> ELSE current
                    /\ k = IF p \in Boundary THEN "invoke" ELSE "scope"
    OBVIOUS
  <2>4. s[Len(s)].kind # "raw"
    BY <1>7
  <2>5. /\ Thread(t, raw_frames, raw_depth, c, Len(s) + 1, Len(stack) + 1, errors)
        /\ TwoMore(s, t, k, "native")
    BY <1>3, <1>7, <2>2, <2>3, <2>4, ThreadChecked
  <2>6. current' = c /\ scope' = Len(s) + 1
    BY <2>1, <2>3 DEF EnterChecked
  <2>7. Len(t) <= MaxStack
    BY <1>2, <1>7, <2>1, <2>5 DEF Room, TwoMore
  <2>8. k \in CppKinds
    BY <2>3 DEF CppKinds
  <2>9. Cpp(t) = Append(Append(Cpp(stack), "interp"), k)
    BY <1>7, <1>9, <2>5, <2>8, CppChecked DEF Thread
  <2>10. Follows(Cpp(stack), Cpp(t))
    BY <1>9, <2>8, <2>9, TwoCalls
  <2> QED BY <1>8, <2>2, <2>5, <2>6, <2>7, <2>10 DEF IInv, Running, TwoMore
<1> QED BY <1>10, <1>11, <1>12

\* What is below the innermost activation.
LEMMA BelowTop ==
  ASSUME NEW s \in Stacks, Bodies(s)
  PROVE  /\ Len(s) \in Nat \ {0}
         /\ s[Len(s)].kind # "host" => Len(s) > 1
         /\ Len(s) > 1 /\ s[Len(s)].kind # "native" => s[Len(s) - 1].kind # "raw"
         /\ Len(s) > 1 => Len(s) - 1 \in 1..Len(s)
<1>1. Len(s) \in Nat \ {0}
  BY StackFacts DEF Bodies
<1>2. ASSUME Len(s) > 1
      PROVE  Len(s) - 1 \in 1..Len(s) /\ Len(s) - 1 < Len(s) /\ Len(s) - 1 + 1 = Len(s)
  BY <1>1, <1>2
<1>3. Len(s) = 1 \/ Len(s) > 1
  <2>1. PICK n \in Nat \ {0} : n = Len(s)
    BY <1>1
  <2>2. n = 1 \/ n > 1
    OBVIOUS
  <2> QED BY <2>1, <2>2
<1>4. s[Len(s)].kind # "host" => Len(s) > 1
  BY <1>3 DEF Bodies
<1>5. ASSUME Len(s) > 1, s[Len(s)].kind # "native"
      PROVE  s[Len(s) - 1].kind # "raw"
  <2>1. PICK i \in 1..Len(s) : i = Len(s) - 1 /\ i < Len(s) /\ i + 1 = Len(s)
    BY <1>2, <1>5
  <2> QED BY <1>5, <2>1 DEF Bodies
<1> QED BY <1>1, <1>2, <1>4, <1>5

\* Native code goes and its boundary with it: leave finds its own frame.
LEMMA ThreadGate ==
  ASSUME NEW s, NEW frames, NEW D, NEW c, NEW sc, NEW a, NEW n, Thread(s, frames, D, c, sc, a, n),
         s[Len(s)].kind = "native", s[Len(s) - 1].kind = "raw",
         NEW t, Leaves(s, Len(s) - 2, t)
  PROVE  /\ D > 0 /\ c = <<"raw", D>> /\ frames[D].sp = Len(s) - 1
         /\ Thread(t, frames, D - 1, frames[D].previous, sc, a, n)
         /\ Quiet(t) /\ t[Len(t)].kind # "raw"
         /\ TwoMore(t, s, "raw", "native")
<1>1. s \in Stacks /\ Bodies(s)
  BY DEF Thread
<1>2. Len(s) \in Nat \ {0} /\ Len(s) > 1 /\ Len(s) - 1 \in 1..Len(s)
  BY <1>1, BelowTop
<1>3. PICK u : Leaves(s, Len(s) - 1, u)
  BY DEF Leaves
<1>4. /\ Thread(u, frames, D, c, sc, a, n)
      /\ Len(u) = Len(s) - 1 /\ \A i \in 1..Len(u) : u[i] = s[i]
  <2>1. PICK c1, sc1 : /\ c1 = IF s[Len(s)].kind = "invoke" THEN s[Len(s)].checkpoint ELSE c
                       /\ sc1 = IF s[Len(s)].kind \in {"invoke", "scope"} THEN s[Len(s)].outer
                               ELSE sc
    OBVIOUS
  <2>2. s[Len(s)].kind \notin {"raw", "interp"}
    OBVIOUS
  <2>3. /\ Thread(u, frames, D, c1, sc1, a, n)
        /\ Len(u) = Len(s) - 1 /\ \A i \in 1..Len(u) : u[i] = s[i]
    BY <1>2, <1>3, <2>1, <2>2, ThreadPop
  <2>4. c1 = c /\ sc1 = sc
    BY <2>1
  <2> QED BY <2>3, <2>4
<1>5. u \in Stacks /\ Bodies(u) /\ Len(u) \in 1..Len(u) /\ u[Len(u)].kind = "raw"
  <2>1. u \in Stacks /\ Bodies(u) /\ Len(u) \in 1..Len(u)
    BY <1>2, <1>4 DEF Thread
  <2> QED BY <1>4, <2>1
<1>6. Len(u) > 1 /\ u[Len(u) - 1].kind # "raw"
  BY <1>5, BelowTop
<1>7. Len(s) > 2
  BY <1>2, <1>4, <1>6
<1>8. Leaves(u, Len(u) - 1, t)
  <2>1. Len(u) - 1 = Len(s) - 2
    BY <1>2, <1>4
  <2>2. SubSeq(s, 1, Len(s) - 2) = SubSeq(SubSeq(s, 1, Len(s) - 1), 1, Len(s) - 2)
    BY <1>1, <1>7, TwoPops
  <2> QED BY <1>3, <2>1, <2>2 DEF Leaves
<1>9. /\ D > 0 /\ c = <<"raw", D>> /\ frames[D].sp = Len(u)
      /\ Thread(t, frames, D - 1, frames[D].previous, sc, a, n)
      /\ Quiet(t) /\ Len(t) = Len(u) - 1 /\ \A i \in 1..Len(t) : t[i] = u[i]
  BY <1>4, <1>5, <1>6, <1>8, ThreadLeave, SMTT(30)
<1>10. t[Len(t)].kind # "raw"
  <2>1. Len(t) \in 1..Len(t) /\ Len(t) = Len(u) - 1
    BY <1>2, <1>4, <1>7, <1>9
  <2> QED BY <1>6, <1>9, <2>1
<1>11. Len(t) = Len(s) - 2 /\ frames[D].sp = Len(s) - 1
  BY <1>2, <1>4, <1>9
<1>12. TwoMore(t, s, "raw", "native")
  <2>1. /\ Len(s) = Len(t) + 2 /\ Len(t) + 1 = Len(s) - 1
        /\ \A i \in 1..Len(t) : i \in 1..Len(u)
    BY <1>2, <1>4, <1>9
  <2>2. \A i \in 1..Len(t) : t[i] = s[i]
    BY <1>4, <1>9, <2>1
  <2> QED BY <2>1, <2>2 DEF TwoMore
<1> QED BY <1>9, <1>10, <1>11, <1>12

\* A C++ or native activation goes that has no boundary below it.
LEMMA ThreadEnd ==
  ASSUME NEW s, NEW frames, NEW D, NEW c, NEW sc, NEW a, NEW n, Thread(s, frames, D, c, sc, a, n),
         Len(s) > 1, s[Len(s)].kind \notin {"raw", "interp"}, s[Len(s) - 1].kind # "raw",
         NEW t, Leaves(s, Len(s) - 1, t)
  PROVE  /\ Thread(t, frames, D,
                   IF s[Len(s)].kind = "invoke" THEN s[Len(s)].checkpoint ELSE c,
                   IF s[Len(s)].kind \in {"invoke", "scope"} THEN s[Len(s)].outer ELSE sc, a, n)
         /\ Quiet(t) /\ Len(t) = Len(s) - 1
         /\ \A i \in 1..Len(t) : t[i] = s[i]
         /\ Len(t) \in 1..Len(s)
         /\ t[Len(t)].kind = s[Len(s) - 1].kind /\ t[Len(t)].kind # "raw"
<1>1. /\ Thread(t, frames, D,
                IF s[Len(s)].kind = "invoke" THEN s[Len(s)].checkpoint ELSE c,
                IF s[Len(s)].kind \in {"invoke", "scope"} THEN s[Len(s)].outer ELSE sc, a, n)
      /\ Quiet(t) /\ Len(t) = Len(s) - 1 /\ \A i \in 1..Len(t) : t[i] = s[i]
  BY ThreadPop
<1>2. Len(s) \in Nat \ {0} /\ Len(s) - 1 \in 1..Len(s)
  BY BelowTop DEF Thread
<1>3. Len(t) \in 1..Len(t) /\ Len(t) \in 1..Len(s)
  BY <1>1, <1>2
<1> QED BY <1>1, <1>3

\* Native code returns through what called it.
LEMMA NativeReturnsStep ==
  ASSUME IInv, NativeReturns
  PROVE  IInv' /\ Follows(Cpp(stack), Cpp(stack'))
<1>1. /\ Sp = Len(stack) /\ Top = stack[Len(stack)] /\ Top.kind = "native"
      /\ Bodies(stack) /\ stack \in Stacks
      /\ Len(stack) <= MaxStack /\ MaxStack \in Nat /\ raw_depth \in Nat
      /\ raw_depth <= Len(raw_frames) /\ Len(raw_frames) \in Nat
      /\ Thread(stack, raw_frames, raw_depth, current, scope, activation, errors)
  BY IFacts, ProgramAssumption DEF NativeReturns, IInv, Running
<1>2. Len(stack) \in Nat \ {0} /\ Len(stack) > 1
  BY <1>1, BelowTop
<1>3. UNCHANGED <<raw_frames, scope, activation, errors>>
  BY DEF NativeReturns
<1>4. CASE stack[Len(stack) - 1].kind = "raw"
  <2>1. PICK t : Leaves(stack, Len(stack) - 2, t) /\ t = stack'
    BY <1>1, <1>4 DEF NativeReturns, Leaves
  <2>2. /\ raw_depth > 0
        /\ Thread(t, raw_frames, raw_depth - 1, raw_frames[raw_depth].previous,
                  scope, activation, errors)
        /\ t[Len(t)].kind # "raw" /\ TwoMore(t, stack, "raw", "native") /\ t \in Stacks
    BY <1>1, <1>4, <2>1, ThreadGate DEF Thread
  <2>3. current' = raw_frames[raw_depth].previous /\ raw_depth' = raw_depth - 1
    BY <1>1, <1>4 DEF NativeReturns, leave
  <2>4. Len(t) <= MaxStack /\ raw_depth - 1 <= Len(raw_frames)
    <3>1. Len(t) \in Nat /\ Len(stack) = Len(t) + 2
      BY <2>2, StackFacts DEF TwoMore
    <3> QED BY <1>1, <1>2, <2>2, <3>1
  <2>5. Cpp(stack) = Cpp(t)
    BY <1>1, <2>2, CppGate
  <2> QED BY <1>3, <2>1, <2>2, <2>3, <2>4, <2>5 DEF IInv, Running, Follows
<1>5. CASE stack[Len(stack) - 1].kind # "raw"
  <2>1. PICK t : Leaves(stack, Len(stack) - 1, t) /\ t = stack'
    BY <1>1, <1>5 DEF NativeReturns, Leaves
  <2>2. /\ Thread(t, raw_frames, raw_depth, current, scope, activation, errors)
        /\ Len(t) = Len(stack) - 1 /\ t[Len(t)].kind # "raw"
        /\ \A i \in 1..Len(t) : t[i] = stack[i]
    BY <1>1, <1>2, <1>5, <2>1, ThreadEnd
  <2>3. UNCHANGED <<current, raw_depth>>
    BY <1>1, <1>5 DEF NativeReturns
  <2>4. Len(t) <= MaxStack
    BY <1>1, <1>2, <2>2
  <2>5. OneMore(t, stack, "native")
    BY <1>1, <1>2, <2>2 DEF OneMore
  <2>6. Cpp(stack) = Cpp(t)
    BY <1>1, <2>2, <2>5, CppBody DEF Thread
  <2> QED BY <1>1, <1>3, <2>1, <2>2, <2>3, <2>4, <2>6 DEF IInv, Running, Follows
<1> QED BY <1>4, <1>5

\* The adapter has returned to invoke: status is read.
LEMMA InvokeReturnsStep ==
  ASSUME IInv, InvokeReturns
  PROVE  IInv' /\ Follows(Cpp(stack), Cpp(stack'))
<1>1. /\ Sp = Len(stack) /\ Top = stack[Len(stack)] /\ Top.kind \in {"invoke", "scope"}
      /\ Bodies(stack) /\ stack \in Stacks /\ Seen(stack, errors) /\ errors \in Nat
      /\ Len(stack) <= MaxStack /\ MaxStack \in Nat
      /\ Thread(stack, raw_frames, raw_depth, current, scope, activation, errors)
  BY IFacts, ProgramAssumption DEF InvokeReturns, IInv, Running
<1>2. /\ Len(stack) \in Nat \ {0} /\ Len(stack) > 1 /\ Len(stack) - 1 \in 1..Len(stack)
      /\ stack[Len(stack) - 1].kind # "raw"
  BY <1>1, BelowTop
<1>3. PICK rest : Leaves(stack, Len(stack) - 1, rest)
  BY DEF Leaves
<1>4. PICK c, sc : /\ c = IF Top.kind = "invoke" THEN Top.checkpoint ELSE current
                   /\ sc = Top.outer
  OBVIOUS
<1>5. /\ Thread(rest, raw_frames, raw_depth, c, sc, activation, errors) /\ Quiet(rest)
      /\ Len(rest) = Len(stack) - 1 /\ \A i \in 1..Len(rest) : rest[i] = stack[i]
      /\ rest[Len(rest)].kind # "raw"
  BY <1>1, <1>2, <1>3, <1>4, ThreadEnd
<1>6. PICK e : e = IF rest[Len(rest)].kind = "interp" THEN Top.error ELSE 0
  OBVIOUS
<1>7. PICK t : Fails(rest, Len(rest), e, t) /\ t = stack'
  BY <1>1, <1>3, <1>5, <1>6 DEF InvokeReturns, Leaves, Fails
<1>8. ASSUME e # 0
      PROVE  rest[Len(rest)].kind = "interp" /\ e \in 1..errors /\ Later(rest, e)
  <2>1. rest[Len(rest)].kind = "interp" /\ e = Top.error
    BY <1>6, <1>8
  <2>2. Len(stack) \in 1..Len(stack)
    BY <1>2
  <2>3. e \in Top.seen /\ Top.seen \subseteq 1..errors
    BY <1>1, <1>8, <2>1, <2>2 DEF Seen
  <2>4. \A i \in 1..Len(rest) : i \in 1..Len(stack) /\ i < Len(stack)
    BY <1>2, <1>5
  <2>5. Later(rest, e)
    BY <1>1, <1>5, <2>2, <2>3, <2>4 DEF Later, Seen
  <2> QED BY <2>1, <2>3, <2>5
<1>9. e \in Nat
  <2>1. CASE e = 0
    BY <2>1
  <2>2. CASE e # 0
    BY <1>1, <1>8, <2>2
  <2> QED BY <2>1, <2>2
<1>10. errors <= errors
  BY <1>1
<1>11. /\ Thread(t, raw_frames, raw_depth, c, sc, activation, errors)
       /\ Len(t) = Len(rest) /\ Agree(rest, t, Len(rest))
  BY <1>1, <1>5, <1>7, <1>8, <1>9, <1>10, ThreadFail
<1>12. t[Len(t)].kind # "raw" /\ Len(t) <= MaxStack
  <2>1. Len(rest) \in 1..Len(rest)
    BY <1>2, <1>5
  <2> QED BY <1>1, <1>2, <1>5, <1>11, <2>1 DEF Agree, Alike
<1>13. /\ current' = c /\ scope' = sc
       /\ UNCHANGED <<raw_frames, raw_depth, activation, errors>>
  BY <1>4 DEF InvokeReturns
<1>14. Follows(Cpp(stack), Cpp(t))
  <2>1. PICK k \in CppKinds : k = Top.kind
    BY <1>1 DEF CppKinds
  <2>2. OneMore(rest, stack, k)
    BY <1>1, <1>2, <1>5, <2>1 DEF OneMore
  <2>3. Follows(Cpp(stack), Cpp(rest))
    BY <1>1, <1>5, <2>2, CppPop DEF Thread
  <2>4. SameKinds(rest, t)
    BY <1>11 DEF SameKinds, Agree, Alike
  <2> QED BY <1>5, <1>11, <2>3, <2>4, CppSame DEF Thread
<1> QED BY <1>7, <1>11, <1>12, <1>13, <1>14 DEF IInv, Running

\* A builtin or a lazy resolver reports an error and its caller goes on.
LEMMA NativeReportsStep ==
  ASSUME IInv, NativeReports
  PROVE  IInv' /\ Follows(Cpp(stack), Cpp(stack'))
<1>1. /\ Quiet(stack) /\ Top.kind # "raw" /\ errors \in Nat /\ MaxErrors \in Nat
      /\ errors < MaxErrors
  BY IFacts, ProgramAssumption DEF NativeReports
<1>2. PICK t : t = Reported(stack, errors + 1) /\ t = stack'
  BY DEF NativeReports
<1>3. /\ Thread(t, raw_frames, raw_depth, current, scope, activation, errors + 1)
      /\ Len(t) = Len(stack) /\ t[Len(t)].kind # "raw" /\ Agree(stack, t, Len(stack))
  BY <1>1, <1>2, Raised
<1>4. /\ errors' = errors + 1
      /\ UNCHANGED <<current, raw_frames, raw_depth, scope, activation>>
  BY DEF NativeReports
<1>5. errors + 1 <= MaxErrors
  BY <1>1
<1>6. Cpp(t) = Cpp(stack)
  <2>1. SameKinds(stack, t)
    BY <1>3 DEF SameKinds, Agree, Alike
  <2> QED BY <1>3, <2>1, CppSame, IFacts DEF Thread
<1> QED BY <1>2, <1>3, <1>4, <1>5, <1>6 DEF IInv, Running, Follows

\* Native code that can fail has its own checkpoint directly below it.
LEMMA OwnCheckpoint ==
  ASSUME IInv, Top.kind = "native", Top.program \in Boundary
  PROVE  /\ Len(stack) > 1 /\ Len(stack) - 1 \in 1..Len(stack)
         /\ stack[Len(stack) - 1].kind \in {"raw", "invoke"}
         /\ stack[Len(stack) - 1].program = Top.program
         /\ current # Null
         /\ Landing = Len(stack) - 1
         /\ stack[Len(stack) - 1].kind = "raw" =>
              current = <<"raw", raw_depth>> /\ raw_depth > 0
         /\ stack[Len(stack) - 1].kind = "invoke" => current = <<"invoke", Len(stack) - 1>>
<1>1. /\ Sp = Len(stack) /\ Top = stack[Len(stack)] /\ Bodies(stack) /\ stack \in Stacks
      /\ raw_depth \in Nat
      /\ Thread(stack, raw_frames, raw_depth, current, scope, activation, errors)
  BY IFacts DEF Running
<1>2. Len(stack) \in Nat \ {0} /\ Len(stack) > 1 /\ Len(stack) - 1 \in 1..Len(stack)
  BY <1>1, BelowTop
<1>3. /\ stack[Len(stack) - 1].kind \in {"raw", "invoke"}
      /\ stack[Len(stack) - 1].program = Top.program
  <2>1. Len(stack) \in 1..Len(stack)
    BY <1>2
  <2> QED BY <1>1, <2>1 DEF Bodies
<1>4. PICK k \in Nat \ {0} : k = Len(stack) - 1 /\ Len(stack) = k + 1
  BY <1>2
<1>5. IsLast(stack, Len(stack), {"invoke", "raw"}, k)
  <2>1. \A j \in (k + 1)..Len(stack) : j = Len(stack)
    BY <1>4
  <2>2. k \in 0..Len(stack)
    BY <1>2, <1>4
  <2> QED BY <1>1, <1>3, <1>4, <2>1, <2>2 DEF IsLast
<1>6. PICK at, back : at = At(raw_frames, raw_depth) /\ back = Back(raw_frames, raw_depth)
  OBVIOUS
<1>7. Checkpoints(stack, at, back, current) /\ DOMAIN at = 1..raw_depth
  BY <1>1, <1>6 DEF Thread, Pointers, At
<1>8. /\ stack[k].kind = "invoke" => current = <<"invoke", k>>
      /\ stack[k].kind = "raw" => current = <<"raw", raw_depth>> /\ raw_depth # 0 /\ at[raw_depth] = k
  BY <1>1, <1>4, <1>5, <1>7, CheckpointInner
<1>9. stack[k].kind = "raw" => raw_frames[raw_depth].sp = k /\ raw_depth > 0
  <2>1. ASSUME stack[k].kind = "raw" PROVE raw_depth \in 1..raw_depth /\ raw_depth > 0
    BY <1>1, <1>8, <2>1
  <2> QED BY <1>6, <1>8, <2>1 DEF At
<1>10. Landing = k
  <2>1. CASE stack[k].kind = "raw"
    <3>1. current[1] = "raw" /\ current[2] = raw_depth
      BY <1>8, <2>1
    <3> QED BY <1>9, <2>1, <3>1 DEF Landing
  <2>2. CASE stack[k].kind = "invoke"
    <3>1. current[1] = "invoke" /\ current[2] = k
      BY <1>8, <2>2
    <3> QED BY <3>1 DEF Landing
  <2> QED BY <1>3, <1>4, <2>1, <2>2
<1>11. current # Null
  BY <1>3, <1>4, <1>8 DEF Null
<1> QED BY <1>2, <1>3, <1>4, <1>8, <1>9, <1>10, <1>11

\* Recovery leaves the innermost checkpoint and all above it.
LEMMA RecoverStep ==
  ASSUME IInv, Recover
  PROVE  IInv' /\ Follows(Cpp(stack), Cpp(stack'))
<1>1. /\ Quiet(stack) /\ Top.kind = "native" /\ errors \in Nat /\ MaxErrors \in Nat
      /\ errors < MaxErrors /\ Len(stack) <= MaxStack /\ MaxStack \in Nat
      /\ stack \in Stacks /\ Len(stack) \in Nat \ {0}
      /\ raw_depth \in Nat /\ raw_depth <= Len(raw_frames) /\ Len(raw_frames) \in Nat
  BY IFacts, ProgramAssumption DEF Recover, IInv
<1>2. /\ Len(stack) > 1 /\ Len(stack) - 1 \in 1..Len(stack)
      /\ stack[Len(stack) - 1].kind \in {"raw", "invoke"}
      /\ Landing = Len(stack) - 1
      /\ stack[Len(stack) - 1].kind = "raw" => current = <<"raw", raw_depth>> /\ raw_depth > 0
      /\ stack[Len(stack) - 1].kind = "invoke" => current = <<"invoke", Len(stack) - 1>>
  BY OwnCheckpoint DEF Recover
<1>3. PICK s : s = Reported(stack, errors + 1)
  OBVIOUS
<1>4. PICK n : n = errors + 1
  OBVIOUS
<1>5. /\ Thread(s, raw_frames, raw_depth, current, scope, activation, n)
      /\ Len(s) = Len(stack) /\ Agree(stack, s, Len(stack)) /\ s[Len(s)].kind = "native"
  BY <1>1, <1>3, <1>4, Raised
<1>6. s[Len(s) - 1].kind = stack[Len(stack) - 1].kind
  BY <1>2, <1>5 DEF Agree, Alike
<1>7. s \in Stacks /\ Cpp(s) = Cpp(stack)
  <2>1. SameKinds(stack, s)
    BY <1>5 DEF SameKinds, Agree, Alike
  <2> QED BY <1>1, <1>5, <2>1, CppSame DEF Thread
<1>8. /\ errors' = n /\ n <= MaxErrors
      /\ UNCHANGED <<raw_frames, scope, activation>>
  BY <1>1, <1>4 DEF Recover
<1>9. CASE stack[Len(stack) - 1].kind = "raw"
  <2>1. current[1] = "raw"
    BY <1>2, <1>9
  <2>2. Landing - 1 = Len(stack) - 2
    BY <1>1, <1>2
  <2>3. PICK t : Leaves(s, Len(s) - 2, t) /\ t = stack'
    BY <1>3, <1>5, <2>1, <2>2 DEF Recover, Leaves
  <2>4. /\ Thread(t, raw_frames, raw_depth - 1, raw_frames[raw_depth].previous,
                  scope, activation, n)
        /\ t[Len(t)].kind # "raw" /\ TwoMore(t, s, "raw", "native") /\ t \in Stacks
    BY <1>5, <1>6, <1>9, <2>3, ThreadGate DEF Thread
  <2>5. current' = raw_frames[raw_depth].previous /\ raw_depth' = raw_depth - 1
    BY <2>1 DEF Recover, leave
  <2>6. Len(t) <= MaxStack /\ raw_depth - 1 <= Len(raw_frames)
    <3>1. Len(t) \in Nat /\ Len(s) = Len(t) + 2
      BY <2>4, StackFacts DEF TwoMore
    <3> QED BY <1>1, <1>2, <1>5, <2>4, <3>1
  <2>7. Cpp(s) = Cpp(t)
    BY <1>7, <2>4, CppGate
  <2> QED BY <1>7, <1>8, <2>3, <2>4, <2>5, <2>6, <2>7 DEF IInv, Running, Follows
<1>10. CASE stack[Len(stack) - 1].kind = "invoke"
  <2>1. current[1] # "raw"
    BY <1>2, <1>10
  <2>2. PICK t : Leaves(s, Len(s) - 1, t) /\ t = stack'
    BY <1>2, <1>3, <1>5, <2>1 DEF Recover, Leaves
  <2>3. PICK c, sc : /\ c = IF s[Len(s)].kind = "invoke" THEN s[Len(s)].checkpoint ELSE current
                     /\ sc = IF s[Len(s)].kind \in {"invoke", "scope"} THEN s[Len(s)].outer
                             ELSE scope
    OBVIOUS
  <2>4. s[Len(s)].kind \notin {"raw", "interp"} /\ s[Len(s) - 1].kind # "raw" /\ Len(s) > 1
    BY <1>2, <1>5, <1>6, <1>10
  <2>5. /\ Thread(t, raw_frames, raw_depth, c, sc, activation, n)
        /\ Len(t) = Len(s) - 1 /\ t[Len(t)].kind # "raw"
        /\ \A i \in 1..Len(t) : t[i] = s[i]
    BY <1>5, <2>2, <2>3, <2>4, ThreadEnd
  <2>6. c = current /\ sc = scope
    BY <1>5, <2>3
  <2>7. UNCHANGED <<current, raw_depth>>
    BY <2>1 DEF Recover
  <2>8. Len(t) <= MaxStack
    BY <1>1, <1>2, <1>5, <2>5
  <2>9. OneMore(t, s, "native")
    BY <1>1, <1>2, <1>5, <2>5 DEF OneMore
  <2>10. Cpp(s) = Cpp(t)
    BY <1>7, <2>5, <2>9, CppBody DEF Thread
  <2> QED BY <1>1, <1>7, <1>8, <2>2, <2>5, <2>6, <2>7, <2>8, <2>10 DEF IInv, Running, Follows
<1> QED BY <1>2, <1>9, <1>10

\* Native code calls the host.
LEMMA NativeCallsHostStep ==
  ASSUME IInv, NativeCallsHost
  PROVE  IInv' /\ Follows(Cpp(stack), Cpp(stack'))
<1>1. /\ Sp = Len(stack) /\ Quiet(stack) /\ stack[Len(stack)].kind = "native"
      /\ Len(stack) \in Nat /\ MaxStack \in Nat /\ Len(stack) + 1 <= MaxStack
      /\ Thread(stack, raw_frames, raw_depth, current, scope, activation, errors)
  BY IFacts, ProgramAssumption DEF NativeCallsHost, Running, Room
<1>2. PICK x : x = Plain("host", "none")
  OBVIOUS
<1>3. Blank(x) /\ x.kind = "host"
  BY <1>2, PlainFacts DEF Blank
<1>4. PICK t : Puts(stack, x, t) /\ t = stack'
  BY <1>2 DEF NativeCallsHost, Puts
<1>5. Fits(stack, x)
  BY <1>1, <1>3 DEF Fits
<1>6. /\ Thread(t, raw_frames, raw_depth, current, scope, activation, errors)
      /\ Len(t) = Len(stack) + 1 /\ t[Len(t)] = x /\ \A i \in 1..Len(stack) : t[i] = stack[i]
  BY <1>1, <1>3, <1>4, <1>5, ThreadBody
<1>7. UNCHANGED <<current, raw_frames, raw_depth, scope, activation, errors>>
  BY DEF NativeCallsHost
<1>8. Follows(Cpp(stack), Cpp(t))
  <2>1. OneMore(stack, t, "host") /\ "host" \in CppKinds
    BY <1>3, <1>6 DEF OneMore, CppKinds
  <2> QED BY <1>1, <1>6, <2>1, CppPush DEF Thread
<1> QED BY <1>1, <1>3, <1>4, <1>6, <1>7, <1>8 DEF IInv, Running

\* A host function ends: only its own activation goes.
LEMMA HostEnds ==
  ASSUME IInv, Top.kind = "host", Sp > 1, NEW t, Leaves(stack, Sp - 1, t)
  PROVE  /\ Thread(t, raw_frames, raw_depth, current, scope, activation, errors) /\ Quiet(t)
         /\ Len(t) = Len(stack) - 1 /\ \A i \in 1..Len(t) : t[i] = stack[i]
         /\ Len(t) \in 1..Len(stack)
         /\ Len(t) <= MaxStack /\ t[Len(t)].kind = stack[Len(stack) - 1].kind
         /\ t[Len(t)].kind # "raw"
         /\ t \in Stacks /\ Follows(Cpp(stack), Cpp(t))
<1>1. /\ Sp = Len(stack) /\ Top = stack[Len(stack)] /\ stack \in Stacks /\ Bodies(stack)
      /\ Len(stack) \in Nat /\ MaxStack \in Nat /\ Len(stack) <= MaxStack
      /\ Thread(stack, raw_frames, raw_depth, current, scope, activation, errors)
  BY IFacts, ProgramAssumption DEF Running, IInv
<1>2. stack[Len(stack) - 1].kind # "raw"
  BY <1>1, BelowTop
<1>3. stack[Len(stack)].kind \notin {"raw", "interp"} /\ stack[Len(stack)].kind = "host"
  BY <1>1
<1>4. PICK c, sc : /\ c = IF stack[Len(stack)].kind = "invoke"
                           THEN stack[Len(stack)].checkpoint ELSE current
                   /\ sc = IF stack[Len(stack)].kind \in {"invoke", "scope"}
                           THEN stack[Len(stack)].outer ELSE scope
  OBVIOUS
<1>5. /\ Thread(t, raw_frames, raw_depth, c, sc, activation, errors) /\ Quiet(t)
      /\ Len(t) = Len(stack) - 1 /\ \A i \in 1..Len(t) : t[i] = stack[i]
      /\ Len(t) \in 1..Len(stack)
      /\ t[Len(t)].kind = stack[Len(stack) - 1].kind /\ t[Len(t)].kind # "raw"
  BY <1>1, <1>2, <1>3, <1>4, ThreadEnd, SMTT(30)
<1>6. c = current /\ sc = scope
  BY <1>3, <1>4
<1>7. Len(t) <= MaxStack
  BY <1>1, <1>5
<1>8. t \in Stacks /\ Follows(Cpp(stack), Cpp(t))
  <2>1. OneMore(t, stack, "host") /\ "host" \in CppKinds
    BY <1>1, <1>5 DEF OneMore, CppKinds
  <2> QED BY <1>1, <1>5, <2>1, CppPop DEF Thread
<1> QED BY <1>5, <1>6, <1>7, <1>8

\* The host returns.
LEMMA HostReturnsStep ==
  ASSUME IInv, HostReturns
  PROVE  IInv' /\ Follows(Cpp(stack), Cpp(stack'))
<1>1. PICK t : Leaves(stack, Sp - 1, t) /\ t = stack'
  BY DEF HostReturns, Leaves
<1>2. /\ Thread(t, raw_frames, raw_depth, current, scope, activation, errors)
      /\ Len(t) <= MaxStack /\ t[Len(t)].kind # "raw" /\ Follows(Cpp(stack), Cpp(t))
  BY <1>1, HostEnds DEF HostReturns
<1> QED BY <1>1, <1>2 DEF IInv, Running, HostReturns

\* A host function called by the interpreter returns an error.
LEMMA HostFailsStep ==
  ASSUME IInv, HostFails
  PROVE  IInv' /\ Follows(Cpp(stack), Cpp(stack'))
<1>1. PICK rest : Leaves(stack, Sp - 1, rest)
  BY DEF Leaves
<1>2. /\ Thread(rest, raw_frames, raw_depth, current, scope, activation, errors) /\ Quiet(rest)
      /\ Len(rest) = Len(stack) - 1 /\ Len(rest) \in 1..Len(stack)
      /\ Len(rest) <= MaxStack /\ rest[Len(rest)].kind = stack[Len(stack) - 1].kind
      /\ rest \in Stacks /\ Follows(Cpp(stack), Cpp(rest))
  BY <1>1, HostEnds DEF HostFails
<1>3. PICK n \in Nat : n = errors + 1 /\ errors <= n /\ n \in 1..n /\ n # 0
  BY IFacts
<1>4. /\ Sp = Len(stack) /\ errors \in Nat /\ MaxErrors \in Nat /\ errors < MaxErrors
      /\ stack[Len(stack) - 1].kind = "interp"
  BY IFacts, ProgramAssumption DEF HostFails
<1>5. PICK t : Fails(rest, Len(rest), n, t) /\ t = stack'
  BY <1>1, <1>2, <1>3, <1>4 DEF HostFails, Leaves, Fails
<1>6. rest[Len(rest)].kind = "interp" /\ Later(rest, n)
  <2>1. rest \in Stacks /\ Seen(rest, errors)
    BY <1>2 DEF Thread, Errors
  <2> QED BY <1>2, <1>3, <1>4, <2>1, NewIsLater
<1>7. /\ Thread(t, raw_frames, raw_depth, current, scope, activation, n)
      /\ Len(t) = Len(rest) /\ Agree(rest, t, Len(rest))
  BY <1>2, <1>3, <1>5, <1>6, ThreadFail
<1>8. t[Len(t)].kind # "raw"
  <2>1. Len(rest) \in 1..Len(rest)
    BY <1>2
  <2> QED BY <1>6, <1>7, <2>1 DEF Agree, Alike
<1>9. /\ errors' = n /\ n <= MaxErrors
      /\ UNCHANGED <<current, raw_frames, raw_depth, scope, activation>>
  BY <1>3, <1>4 DEF HostFails
<1>10. Cpp(t) = Cpp(rest)
  <2>1. SameKinds(rest, t)
    BY <1>7 DEF SameKinds, Agree, Alike
  <2> QED BY <1>2, <1>7, <2>1, CppSame DEF Thread
<1> QED BY <1>2, <1>5, <1>7, <1>8, <1>9, <1>10 DEF IInv, Running

\* A body of the interpreter fails.
LEMMA InterpFailsStep ==
  ASSUME IInv, InterpFails
  PROVE  IInv' /\ Follows(Cpp(stack), Cpp(stack'))
<1>1. PICK n \in Nat : n = errors + 1 /\ errors <= n /\ n \in 1..n /\ n # 0
  BY IFacts
<1>2. /\ Sp = Len(stack) /\ errors \in Nat /\ MaxErrors \in Nat /\ errors < MaxErrors
      /\ stack[Len(stack)].kind = "interp" /\ Quiet(stack) /\ Len(stack) \in Nat \ {0}
      /\ stack \in Stacks /\ Seen(stack, errors)
      /\ Thread(stack, raw_frames, raw_depth, current, scope, activation, errors)
  BY IFacts, ProgramAssumption DEF InterpFails, Interpreter, Running
<1>3. PICK t : Fails(stack, Len(stack), n, t) /\ t = stack'
  BY <1>1, <1>2 DEF InterpFails, Fails
<1>4. Later(stack, n)
  BY <1>1, <1>2, NewIsLater
<1>5. /\ Thread(t, raw_frames, raw_depth, current, scope, activation, n)
      /\ Len(t) = Len(stack) /\ Agree(stack, t, Len(stack))
  BY <1>1, <1>2, <1>3, <1>4, ThreadFail
<1>6. t[Len(t)].kind # "raw"
  <2>1. Len(stack) \in 1..Len(stack)
    BY <1>2
  <2> QED BY <1>2, <1>5, <2>1 DEF Agree, Alike
<1>7. /\ errors' = n /\ n <= MaxErrors
      /\ UNCHANGED <<current, raw_frames, raw_depth, scope, activation>>
  BY <1>1, <1>2 DEF InterpFails
<1>8. Cpp(t) = Cpp(stack)
  <2>1. SameKinds(stack, t)
    BY <1>5 DEF SameKinds, Agree, Alike
  <2> QED BY <1>2, <1>5, <2>1, CppSame DEF Thread
<1> QED BY <1>3, <1>5, <1>6, <1>7, <1>8 DEF IInv, Running, Follows

\* The interpreter returns.
LEMMA InterpReturnsStep ==
  ASSUME IInv, InterpReturns
  PROVE  IInv' /\ Follows(Cpp(stack), Cpp(stack'))
<1>1. /\ Sp = Len(stack) /\ Top = stack[Len(stack)] /\ Top.kind = "interp"
      /\ Bodies(stack) /\ stack \in Stacks /\ Errors(stack, errors) /\ errors \in Nat
      /\ Len(stack) <= MaxStack /\ MaxStack \in Nat
      /\ Thread(stack, raw_frames, raw_depth, current, scope, activation, errors)
  BY IFacts, ProgramAssumption DEF InterpReturns, IInv, Running
<1>2. /\ Len(stack) \in Nat \ {0} /\ Len(stack) > 1 /\ Len(stack) - 1 \in 1..Len(stack)
      /\ stack[Len(stack) - 1].kind # "raw"
  BY <1>1, BelowTop
<1>3. PICK undone : Undone(stack, undone)
  BY DEF Undone
<1>4. PICK rest : Leaves(undone, Len(stack) - 1, rest)
  BY DEF Leaves
<1>5. PICK a : a = Top.previous
  OBVIOUS
<1>6. /\ Thread(rest, raw_frames, raw_depth, current, scope, a, errors) /\ Quiet(rest)
      /\ Len(rest) = Len(stack) - 1 /\ Agree(stack, rest, Len(rest))
      /\ Notes(stack, rest, Len(rest))
  BY <1>1, <1>2, <1>3, <1>4, <1>5, ThreadReturn
<1>7. /\ rest \in Stacks /\ Len(rest) \in 1..Len(rest) /\ Len(rest) <= Len(stack)
      /\ Len(rest) <= MaxStack /\ rest[Len(rest)].kind # "raw"
  <2>1. rest \in Stacks /\ Len(rest) \in 1..Len(rest) /\ Len(rest) <= Len(stack)
    BY <1>2, <1>6 DEF Thread
  <2> QED BY <1>1, <1>2, <1>6, <2>1 DEF Agree, Alike
<1>18. Follows(Cpp(stack), Cpp(rest))
  <2>1. OneMore(rest, stack, "interp") /\ "interp" \in CppKinds
    BY <1>1, <1>2, <1>6 DEF OneMore, Agree, Alike, CppKinds
  <2> QED BY <1>1, <1>6, <2>1, CppPop DEF Thread
<1>8. PICK e : e = Top.failing
  OBVIOUS
<1>9. e # 0 => e \in 1..errors /\ Later(rest, e)
  <2>1. Len(stack) \in 1..Len(stack)
    BY <1>2
  <2>2. e # 0 => e \in 1..errors /\ Later(stack, e)
    BY <1>1, <1>8, <2>1 DEF Errors
  <2> QED BY <1>1, <1>6, <1>7, <2>2, LaterPop
<1>10. e \in Nat /\ errors <= errors
  BY <1>1, <1>8, IFacts DEF Activation
<1>11. /\ activation' = a
       /\ UNCHANGED <<current, raw_frames, raw_depth, scope, errors>>
  BY <1>5 DEF InterpReturns
<1>12. stack' = CASE e # 0 /\ Top.reports -> Reported(rest, e)
                  [] rest[Sp - 1].kind = "interp" -> [rest EXCEPT ![Sp - 1].failing = e]
                  [] OTHER -> rest
  <2>1. PICK u : u = [stack EXCEPT ![Top.invocation].depth = @ - 1]
    OBVIOUS
  <2>2. u = undone
    BY <1>1, <1>3, <2>1 DEF Undone
  <2>3. rest = SubSeq(u, 1, Sp - 1)
    BY <1>1, <1>4, <2>2 DEF Leaves
  <2> QED BY <1>8, <2>1, <2>3 DEF InterpReturns
<1>13. \/ e # 0 /\ stack' = Reported(rest, e)
       \/ rest[Len(rest)].kind = "interp" /\ Fails(rest, Len(rest), e, stack')
       \/ stack' = rest
  BY <1>1, <1>6, <1>12 DEF Fails
<1>14. PICK t : t = stack'
  OBVIOUS
<1>15. CASE e # 0 /\ stack' = Reported(rest, e)
  <2>1. PICK m \in Nat : m = errors /\ e \in 1..m /\ errors <= m
    BY <1>1, <1>9, <1>15
  <2>2. Later(rest, e) /\ t = Reported(rest, e)
    BY <1>9, <1>14, <1>15
  <2>3. /\ Thread(t, raw_frames, raw_depth, current, scope, a, m)
        /\ Len(t) = Len(rest) /\ Agree(rest, t, Len(rest))
    BY <1>6, <2>1, <2>2, ThreadReport
  <2>4. t[Len(t)].kind # "raw"
    BY <1>7, <2>3 DEF Agree, Alike
  <2>5. Cpp(t) = Cpp(rest)
    <3>1. SameKinds(rest, t)
      BY <2>3 DEF SameKinds, Agree, Alike
    <3> QED BY <1>7, <2>3, <3>1, CppSame DEF Thread
  <2> QED BY <1>7, <1>11, <1>14, <1>18, <2>1, <2>3, <2>4, <2>5 DEF IInv, Running
<1>16. CASE rest[Len(rest)].kind = "interp" /\ Fails(rest, Len(rest), e, stack')
  <2>1. Fails(rest, Len(rest), e, t)
    BY <1>14, <1>16
  <2>2. /\ Thread(t, raw_frames, raw_depth, current, scope, a, errors)
        /\ Len(t) = Len(rest) /\ Agree(rest, t, Len(rest))
    BY <1>1, <1>6, <1>9, <1>10, <1>16, <2>1, ThreadFail
  <2>3. t[Len(t)].kind # "raw"
    BY <1>7, <2>2 DEF Agree, Alike
  <2>4. Cpp(t) = Cpp(rest)
    <3>1. SameKinds(rest, t)
      BY <2>2 DEF SameKinds, Agree, Alike
    <3> QED BY <1>7, <2>2, <3>1, CppSame DEF Thread
  <2> QED BY <1>7, <1>11, <1>14, <1>18, <2>2, <2>3, <2>4 DEF IInv, Running
<1>17. CASE stack' = rest
  BY <1>6, <1>7, <1>11, <1>17, <1>18 DEF IInv, Running
<1> QED BY <1>13, <1>15, <1>16, <1>17

\* Every step keeps the invariant.
LEMMA StepIInv == IInv /\ [Next]_vars => IInv' /\ Follows(Cpp(stack), Cpp(stack'))
<1> SUFFICES ASSUME IInv, [Next]_vars PROVE IInv' /\ Follows(Cpp(stack), Cpp(stack'))
  OBVIOUS
<1>1. CASE UNCHANGED vars
  BY <1>1 DEF vars, IInv, Running, Follows
<1>2. CASE \E p \in Programs : HostCallsNative(p)
  BY <1>2, HostCallsNativeStep
<1>3. CASE \E p \in Programs : CallsAddress(p)
  BY <1>3, CallsAddressStep
<1>4. CASE \E p \in Programs : HostCallsInterp(p)
  BY <1>4, HostCallsInterpStep
<1>5. CASE \E p \in Programs : EntryCallsInterp(p)
  BY <1>5, EntryCallsInterpStep
<1>6. CASE \E p \in Programs : EntryRefused(p)
  BY <1>6, EntryRefusedStep
<1>7. CASE \E role \in {"body", "host", "native"} : InterpCalls(role)
  BY <1>7, InterpCallsStep
<1>8. CASE InvokeReturns
  BY <1>8, InvokeReturnsStep
<1>9. CASE NativeReturns
  BY <1>9, NativeReturnsStep
<1>10. CASE NativeReports
  BY <1>10, NativeReportsStep
<1>11. CASE Recover
  BY <1>11, RecoverStep
<1>12. CASE NativeCallsHost
  BY <1>12, NativeCallsHostStep
<1>13. CASE HostReturns
  BY <1>13, HostReturnsStep
<1>14. CASE HostFails
  BY <1>14, HostFailsStep
<1>15. CASE InterpFails
  BY <1>15, InterpFailsStep
<1>16. CASE InterpReturns
  BY <1>16, InterpReturnsStep
<1> QED
  BY <1>1, <1>2, <1>3, <1>4, <1>5, <1>6, <1>7, <1>8, <1>9, <1>10, <1>11, <1>12, <1>13,
     <1>14, <1>15, <1>16 DEF Next

\* The inductive invariant holds in every reachable state, for every set of
\* programs, depth limit and length of the control stack.
THEOREM Invariance == Spec => []IInv
BY InitIInv, StepIInv, PTL DEF Spec

-----------------------------------------------------------------------------
(* What the invariant says about the thread.                               *)

\* The invariant contains the type invariant.
LEMMA TypesOk == IInv => TypeOK
<1> SUFFICES ASSUME IInv PROVE TypeOK
  OBVIOUS
<1>1. /\ stack \in Stacks /\ Len(stack) \in Nat \ {0} /\ Len(stack) <= MaxStack
      /\ MaxStack \in Nat /\ MaxErrors \in Nat /\ errors \in Nat /\ errors <= MaxErrors
      /\ raw_frames \in Seq(RawFrame) /\ raw_depth \in Nat /\ raw_depth <= Len(raw_frames)
  BY IFacts, ProgramAssumption DEF IInv
<1>2. /\ scope \in 0..Len(stack) /\ activation \in 0..Len(stack)
      /\ \/ current = Null
         \/ \E k \in 1..Len(stack) : current = <<"invoke", k>>
         \/ \E d \in 1..raw_depth : current = <<"raw", d>>
  BY ThreadTypes DEF IInv, Running
<1>3. \A i \in DOMAIN stack : stack[i] \in Activation
  BY <1>1, StackFacts
<1>4. current \in {Null} \cup ({"invoke"} \X (1..Len(stack)))
                         \cup ({"raw"} \X (1..Len(raw_frames)))
  <2>1. Len(raw_frames) \in Nat
    BY <1>1
  <2>2. \A d \in 1..raw_depth : d \in 1..Len(raw_frames)
    BY <1>1, <2>1
  <2> QED BY <1>2, <2>2
<1>5. \A i \in DOMAIN raw_frames :
        /\ raw_frames[i].sp \in 1..MaxStack
        /\ raw_frames[i].previous \in {"null", "invoke", "raw"} \X (0..MaxStack)
  <2>1. \A i \in DOMAIN raw_frames : raw_frames[i] \in RawFrame
    BY <1>1
  <2>2. \A f \in RawFrame : /\ f.sp \in 1..MaxStack
                            /\ f.previous \in {"null", "invoke", "raw"} \X (0..MaxStack)
    BY DEF RawFrame
  <2> QED BY <2>1, <2>2
<1>6. raw_depth \in 0..Len(raw_frames)
  BY <1>1
<1>7. Len(stack) \in 1..MaxStack /\ errors \in 0..MaxErrors
  BY <1>1
<1> QED BY <1>2, <1>3, <1>4, <1>5, <1>6, <1>7 DEF TypeOK

\* The invariant contains CheckpointInnermost.
LEMMA InnermostCheckpoint == IInv => CheckpointInnermost
<1> SUFFICES ASSUME IInv PROVE CheckpointInnermost
  OBVIOUS
<1>1. /\ stack \in Stacks /\ Len(stack) \in Nat \ {0} /\ raw_depth \in Nat
      /\ Thread(stack, raw_frames, raw_depth, current, scope, activation, errors)
  BY IFacts DEF Running
<1>2. PICK at, back : at = At(raw_frames, raw_depth) /\ back = Back(raw_frames, raw_depth)
  OBVIOUS
<1>3. /\ Checkpoints(stack, at, back, current) /\ DOMAIN at = 1..raw_depth
      /\ \A d \in 1..raw_depth : at[d] = raw_frames[d].sp
  BY <1>1, <1>2 DEF Thread, Pointers, At
<1>4. PICK k : IsLast(stack, Len(stack), {"invoke", "raw"}, k)
  BY <1>3 DEF Checkpoints, IsCheckpoint
<1>5. Innermost({"invoke", "raw"}) = k
  BY <1>1, <1>4, LastInnermost
<1>6. /\ k = 0 => current = Null
      /\ k # 0 /\ stack[k].kind = "invoke" => current = <<"invoke", k>>
      /\ k # 0 /\ stack[k].kind = "raw" =>
           current = <<"raw", raw_depth>> /\ raw_depth # 0 /\ at[raw_depth] = k
  BY <1>1, <1>3, <1>4, CheckpointInner
<1>7. k # 0 /\ stack[k].kind = "raw" => raw_frames[raw_depth].sp = k
  BY <1>1, <1>3, <1>6
<1>8. k # 0 => stack[k].kind \in {"invoke", "raw"}
  BY <1>4 DEF IsLast
<1>9. Positions({"raw"}) = GatesOn(stack)
  BY <1>1, StackFacts DEF Positions, GatesOn
<1>10. /\ raw_depth = Cardinality(Positions({"raw"}))
       /\ {raw_frames[d].sp : d \in 1..raw_depth} = Positions({"raw"})
  BY <1>1, <1>9, GatesCounted
<1>11. (CASE k = 0 -> current = Null
          [] k # 0 /\ stack[k].kind = "invoke" -> current = <<"invoke", k>>
          [] OTHER -> current = <<"raw", raw_depth>> /\ raw_frames[raw_depth].sp = k)
  BY <1>6, <1>7, <1>8
<1> QED BY <1>5, <1>10, <1>11 DEF CheckpointInnermost

\* The invariant contains PointersSaved.
LEMMA SavedPointers == IInv => PointersSaved
<1> SUFFICES ASSUME IInv PROVE PointersSaved
  OBVIOUS
<1>1. /\ stack \in Stacks /\ DOMAIN stack = 1..Len(stack)
      /\ Thread(stack, raw_frames, raw_depth, current, scope, activation, errors)
  BY IFacts, StackFacts DEF Running
<1>2. /\ Checkpoints(stack, Gates, Back(raw_frames, raw_depth), current)
      /\ Chain(stack, {"invoke", "scope"}, Outer(stack), scope)
      /\ Interpreters(stack, activation)
  BY <1>1 DEF Thread, Pointers, Gates, At
<1>3. \A kinds : \A i \in Positions(kinds) : i \in 1..Len(stack) /\ stack[i].kind \in kinds
  BY <1>1 DEF Positions
<1>4. \A i \in Positions({"invoke"}) : IsCheckpoint(stack, i - 1, Gates, stack[i].checkpoint)
  BY <1>2, <1>3 DEF Checkpoints
<1>5. DOMAIN Gates = 1..raw_depth
  BY DEF Gates
<1>6. /\ \A d \in 1..raw_depth : IsCheckpoint(stack, Gates[d] - 1, Gates, raw_frames[d].previous)
      /\ \A c, d \in 1..raw_depth : c < d => Gates[c] < Gates[d]
  BY <1>2, <1>5 DEF Checkpoints, Back
<1>7. \A i \in Positions({"invoke", "scope"}) :
        IsLast(stack, i - 1, {"invoke", "scope"}, stack[i].outer)
  BY <1>2, <1>3 DEF Chain, Outer
<1>8. \A i \in DOMAIN stack :
        IF stack[i].kind = "interp" THEN IsLast(stack, i - 1, {"interp"}, stack[i].previous)
        ELSE stack[i].previous = 0
  BY <1>1, <1>2 DEF Chain, Interpreters
<1> QED BY <1>4, <1>6, <1>7, <1>8 DEF PointersSaved

\* The invariant contains BodiesGuarded.
LEMMA GuardedBodies == IInv => BodiesGuarded
<1> SUFFICES ASSUME IInv PROVE BodiesGuarded
  OBVIOUS
<1>1. /\ DOMAIN stack = 1..Len(stack) /\ Len(stack) \in Nat \ {0} /\ Sp = Len(stack)
      /\ Bodies(stack) /\ stack[Len(stack)].kind # "raw"
  BY IFacts, StackFacts
<1>2. \A i \in Positions({"raw"}) : i \in 1..Len(stack) /\ stack[i].kind = "raw" /\ i < Sp
  <2>1. PICK n \in Nat \ {0} : n = Len(stack)
    BY <1>1
  <2>2. \A i \in 1..n : i # n => i < n
    OBVIOUS
  <2> QED BY <1>1, <2>1, <2>2 DEF Positions
<1>3. \A i \in Positions({"native"}) : i \in 1..Len(stack) /\ stack[i].kind = "native"
  BY <1>1 DEF Positions
<1> QED BY <1>1, <1>2, <1>3 DEF BodiesGuarded, Bodies

\* The invariant contains ErrorsOrdered.
LEMMA OrderedErrors == IInv => ErrorsOrdered
<1> SUFFICES ASSUME IInv PROVE ErrorsOrdered
  OBVIOUS
<1>1. DOMAIN stack = 1..Len(stack) /\ Sp = Len(stack) /\ Errors(stack, errors)
  BY IFacts, StackFacts
<1> QED BY <1>1 DEF ErrorsOrdered, Errors, Seen, Later

\* The invariant contains LeaveNeverTraps.
LEMMA LeaveFindsItsFrame == IInv => LeaveNeverTraps
<1> SUFFICES ASSUME IInv PROVE LeaveNeverTraps
  OBVIOUS
<1>1. /\ Sp = Len(stack) /\ Top = stack[Len(stack)]
      /\ Thread(stack, raw_frames, raw_depth, current, scope, activation, errors)
  BY IFacts DEF Running
<1>2. PICK t : Leaves(stack, Len(stack) - 2, t)
  BY DEF Leaves
<1>3. ASSUME stack[Len(stack)].kind = "native", stack[Len(stack) - 1].kind = "raw"
      PROVE  raw_depth > 0 /\ current = <<"raw", raw_depth>>
  <2>1. PICK D, c : D = raw_depth /\ c = current
    OBVIOUS
  <2>2. Thread(stack, raw_frames, D, c, scope, activation, errors)
    BY <1>1, <2>1
  <2>3. D > 0 /\ c = <<"raw", D>>
    BY <1>2, <1>3, <2>2, ThreadGate, ZenonT(30)
  <2> QED BY <2>1, <2>3
<1> QED BY <1>1, <1>3 DEF LeaveNeverTraps, LeaveMatches

\* The invariant contains BudgetShared.
LEMMA SharedBudget == IInv => BudgetShared
<1> SUFFICES ASSUME IInv PROVE BudgetShared
  OBVIOUS
<1>1. /\ stack \in Stacks /\ DOMAIN stack = 1..Len(stack) /\ Budget(stack)
      /\ IsLast(stack, Len(stack), {"interp"}, activation)
  BY IFacts, StackFacts, ThreadTypes DEF Running, Thread, Pointers
<1>2. activation = Innermost({"interp"})
  BY <1>1, LastInnermost
<1>3. \A p : {i \in Positions({"interp"}) : stack[i].program = p} = Mine(stack, p)
  BY <1>1 DEF Positions, Mine
<1> QED BY <1>1, <1>2, <1>3, ZenonT(30) DEF BudgetShared, Budget

\* Whichever way calls end, the saved and current pointers of the thread describe
\* its control stack: recovery, the boundaries, the scopes of errors and the
\* interpreters with their common budget.
THEOREM PointersDescribeStack == Spec => []ThreadConsistent
<1>1. IInv => ThreadConsistent
  BY TypesOk, InnermostCheckpoint, SavedPointers, GuardedBodies, OrderedErrors,
     LeaveFindsItsFrame, SharedBudget DEF ThreadConsistent
<1> QED BY <1>1, Invariance, PTL

\* report_execution_error reaches the innermost scope on the control stack, and
\* what a scope reports in the end is the first error raised under it.
THEOREM FirstErrorReported == Spec => []FirstErrorKept
<1>1. ASSUME IInv PROVE FirstErrorKept
  <2>1. /\ stack \in Stacks /\ DOMAIN stack = 1..Len(stack) /\ Seen(stack, errors)
        /\ IsLast(stack, Len(stack), {"invoke", "scope"}, scope)
    BY <1>1, IFacts, StackFacts, ThreadTypes DEF Running
  <2>2. scope = Innermost({"invoke", "scope"})
    BY <2>1, LastInnermost
  <2>3. \A i \in Positions({"invoke", "scope"}) : i \in 1..Len(stack)
    BY <2>1 DEF Positions
  <2> QED BY <2>1, <2>2, <2>3 DEF FirstErrorKept, Seen
<1>2. IInv => FirstErrorKept
  BY <1>1
<1> QED BY <1>2, Invariance, PTL

\* Recovery from native code lands at a checkpoint of its own program with
\* nothing but native frames above it.
THEOREM RecoveryLandsSafely == Spec => []RecoverySafe
<1>1. ASSUME IInv PROVE RecoverySafe
  <2> SUFFICES ASSUME Top.kind = "native", Top.program \in Boundary
               PROVE  /\ current # Null
                      /\ Landing \in 1..Sp
                      /\ stack[Landing].program = Top.program
                      /\ \A i \in (Landing + 1)..Sp : stack[i].kind = "native"
    BY DEF RecoverySafe
  <2>1. /\ Len(stack) \in Nat \ {0} /\ Sp = Len(stack) /\ Top = stack[Len(stack)]
    BY <1>1, IFacts
  <2>2. /\ Len(stack) - 1 \in 1..Len(stack) /\ Landing = Len(stack) - 1 /\ current # Null
        /\ stack[Len(stack) - 1].program = Top.program
    BY <1>1, OwnCheckpoint
  <2>3. \A i \in (Landing + 1)..Sp : i = Len(stack)
    BY <2>1, <2>2
  <2> QED BY <2>1, <2>2, <2>3
<1>2. IInv => RecoverySafe
  BY <1>1
<1> QED BY <1>2, Invariance, PTL

\* Every step of the thread starts C++ activations on top of those there are, ends
\* the innermost, or is none of theirs: what C++ code relies on holds, whatever
\* fails where.
THEOREM StructureKept == Spec => KeepsStructure
<1>1. Init => Structured!Init
  <2> SUFFICES ASSUME Init PROVE Cpp(stack) = <<"host">>
    BY DEF Structured!Init
  <2>1. stack \in Stacks
    BY InitIInv, IFacts
  <2>2. PICK g : Among(g, stack) /\ Cpp(stack) = g[Len(stack)]
    BY <2>1, CppRecursive
  <2>3. Len(stack) = 1 /\ stack[1].kind = "host"
    BY DEF Init, Plain
  <2>4. g[1] = Joined(<<>>, "host")
    BY <2>2, <2>3 DEF Among
  <2> QED BY <2>2, <2>3, <2>4 DEF Joined, CppKinds
<1>2. IInv /\ [Next]_vars => [Structured!Next]_(Cpp(stack))
  <2> SUFFICES ASSUME IInv, [Next]_vars PROVE [Structured!Next]_(Cpp(stack))
    OBVIOUS
  <2>1. Follows(Cpp(stack), Cpp(stack'))
    BY StepIInv
  <2>2. Cpp(stack)' = Cpp(stack')
    OBVIOUS
  <2> QED BY <2>1, <2>2 DEF Follows, Structured!Next, Structured!Call, Structured!Return
<1>3. Spec => []IInv
  BY Invariance
<1> QED BY <1>1, <1>2, <1>3, PTL DEF Spec, KeepsStructure, Structured!Spec
=============================================================================
