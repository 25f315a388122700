-------------------------- MODULE BBVRuntimeProofs --------------------------
(***************************************************************************)
(* Proofs about BBVRuntime: the inductive invariant of lazy block          *)
(* compilation, and what follows from it for every layout of blocks, every *)
(* flow of properties, every arena size and every depth of reentry.        *)
(***************************************************************************)
EXTENDS BBVRuntime, InductionFacts, SequenceTheorems, TLAPS

-----------------------------------------------------------------------------
(* The first-version policy.                                               *)

Versions == [Blocks -> Properties \cup {None}]

\* A request gives a version to the block it asks for and takes none away.
LEMMA RequestFacts ==
  ASSUME NEW made \in Versions, NEW edge \in Blocks \X Properties
  PROVE  /\ request(made, edge) \in Versions
         /\ request(made, edge)[edge[1]] # None
         /\ \A c \in Blocks : made[c] # None => request(made, edge)[c] = made[c]
BY BlocksAssumption DEF request, Versions

\* Specializing a block gives every successor a version and keeps those that
\* exist, whatever the number and the order of its edges.
LEMMA SpecializeFacts ==
  ASSUME NEW made \in Versions, NEW b \in Blocks, made[b] # None
  PROVE  /\ specialize(made, b) \in Versions
         /\ \A c \in Blocks : made[c] # None => specialize(made, b)[c] = made[c]
         /\ \A i \in DOMAIN Flow[b][made[b]] :
              /\ Flow[b][made[b]][i][1] \in Blocks
              /\ specialize(made, b)[Flow[b][made[b]][i][1]] # None
<1> DEFINE edges == Flow[b][made[b]]
           N == Len(edges)
           S == {m \in Versions : \A c \in Blocks : made[c] # None => m[c] = made[c]}
           step == [a \in (1..N) \X S |-> request(a[2], edges[a[1]])]
           before == [n \in 1..N |-> n - 1]
           Defines(g) == g = [n \in 0..N |-> IF n = 0 THEN made ELSE request(g[n - 1], edges[n])]
           after == CHOOSE g : Defines(g)
<1>1. edges \in Seq(Blocks \X Properties)
  BY BlocksAssumption DEF Versions
<1>2. N \in Nat /\ DOMAIN edges = 1..N /\ \A n \in 1..N : edges[n] \in Blocks \X Properties
  BY <1>1, LenProperties, ElementOfSeq
<1>3. made \in S
  OBVIOUS
<1>4. ASSUME NEW m \in S, NEW n \in 1..N
      PROVE  request(m, edges[n]) \in S
  BY <1>2, RequestFacts DEF Versions
<1>5. step \in [(1..N) \X S -> S]
  BY <1>4
<1>6. Recursion(N, S, made, before, step)
  BY <1>2, <1>3, <1>5 DEF Recursion
<1>7. PICK g : Solves(g, N, S, made, before, step)
  <2> HIDE DEF step, before, S, N
  <2> QED BY <1>6, RecursionExists
<1>8. /\ g \in [0..N -> S]
      /\ g[0] = made
      /\ \A n \in 1..N : g[n] = step[<<n, g[n - 1]>>]
  BY <1>7, <1>2, ZenonT(30) DEF Solves
<1>9. ASSUME NEW n \in 1..N
      PROVE  g[n] = request(g[n - 1], edges[n])
  <2>1. n - 1 \in 0..N
    BY <1>2
  <2>2. g[n - 1] \in S
    BY <1>8, <2>1
  <2> HIDE DEF S
  <2> QED BY <1>8, <2>2
<1>10. Defines(g)
  BY <1>8, <1>9, <1>2
<1>11. Defines(after)
  <2> HIDE DEF Defines
  <2> QED BY <1>10
<1>12. /\ after[0] = made
       /\ \A n \in 1..N : after[n] = request(after[n - 1], edges[n])
  <2>1. \A f : Defines(f) => \A n \in 0..N :
                 f[n] = IF n = 0 THEN made ELSE request(f[n - 1], edges[n])
    OBVIOUS
  <2>2. \A n \in 0..N : after[n] = IF n = 0 THEN made ELSE request(after[n - 1], edges[n])
    <3> HIDE DEF Defines, after
    <3> QED BY <1>11, <2>1
  <2> HIDE DEF after, Defines
  <2> QED BY <2>2, <1>2
<1>13. specialize(made, b) = after[N]
  BY DEF specialize
<1> HIDE DEF after, edges
<1> DEFINE Done == {n \in 0..N : after[n] \in S /\ \A i \in 1..n : after[n][edges[i][1]] # None}
<1>14. 0 \in Done
  BY <1>2, <1>3, <1>12
<1>15. ASSUME NEW n \in 0..(N - 1), n \in Done
       PROVE  n + 1 \in Done
  <2>1. n + 1 \in 1..N /\ after[n + 1] = request(after[n], edges[n + 1])
    BY <1>2, <1>12
  <2>2. after[n] \in S /\ after[n] \in Versions /\ edges[n + 1] \in Blocks \X Properties
    BY <1>2, <1>15, <2>1
  <2>3. after[n + 1] \in S
    BY <1>4, <2>1, <2>2
  <2>4. ASSUME NEW i \in 1..(n + 1)
        PROVE  after[n + 1][edges[i][1]] # None
    <3>1. CASE i = n + 1
      BY <2>1, <2>2, <3>1, RequestFacts
    <3>2. CASE i \in 1..n
      <4>1. after[n][edges[i][1]] # None /\ edges[i] \in Blocks \X Properties
        BY <1>2, <1>15, <3>2
      <4> QED BY <2>1, <2>2, <4>1, RequestFacts, SMTT(30)
    <3> QED BY <3>1, <3>2
  <2> QED BY <2>1, <2>3, <2>4
<1>16. N \in Done
  <2>1. N \in Nat
    BY <1>2
  <2> HIDE DEF Done, N
  <2>2. 0..N \subseteq Done
    BY <1>14, <1>15, <2>1, CountsUp
  <2> QED BY <2>1, <2>2
<1>17. after[N] \in S /\ \A i \in 1..N : after[N][edges[i][1]] # None
  BY <1>16
<1> QED BY <1>2, <1>13, <1>17 DEF edges

-----------------------------------------------------------------------------
(* The stack of activations.                                               *)

Frame == [block : Blocks, stage : Stages]

\* What TypeOK says of the stack, activation by activation.
LEMMA FrameFacts ==
  ASSUME TypeOK
  PROVE  /\ frames \in Seq(Frame)
         /\ Len(frames) \in Nat
         /\ DOMAIN frames = 1..Len(frames)
         /\ \A i \in DOMAIN frames : frames[i] \in Frame
         /\ Running => Len(frames) \in DOMAIN frames /\ Len(frames) # 0
<1>1. frames \in Seq(Frame)
  BY DEF TypeOK, Frame
<1>2. Len(frames) \in Nat /\ DOMAIN frames = 1..Len(frames)
  BY <1>1, LenProperties
<1>3. \A i \in DOMAIN frames : frames[i] \in Frame
  BY <1>1, <1>2, ElementOfSeq
<1>4. frames # <<>> => Len(frames) # 0
  BY <1>1, EmptySeq
<1> QED BY <1>1, <1>2, <1>3, <1>4 DEF Running

\* The innermost activation goes to its next stage.
LEMMA GoToFacts ==
  ASSUME TypeOK, Running, NEW stage \in Stages, GoTo(stage)
  PROVE  /\ frames' \in Seq(Frame)
         /\ Len(frames') = Len(frames)
         /\ DOMAIN frames' = DOMAIN frames
         /\ \A i \in DOMAIN frames :
              /\ frames'[i].block = frames[i].block
              /\ frames'[i].stage = IF i = Len(frames) THEN stage ELSE frames[i].stage
<1>1. PICK top \in DOMAIN frames : top = Len(frames)
  BY FrameFacts
<1>2. frames[top] \in Frame /\ [frames[top] EXCEPT !.stage = stage] \in Frame
  BY FrameFacts DEF Frame
<1>3. frames' = [frames EXCEPT ![top] = [frames[top] EXCEPT !.stage = stage]]
  BY <1>1 DEF GoTo
<1>4. /\ frames' \in Seq(Frame)
      /\ Len(frames') = Len(frames)
      /\ \A i \in 1..Len(frames) :
           frames'[i] = IF i = top THEN [frames[top] EXCEPT !.stage = stage] ELSE frames[i]
  BY <1>1, <1>2, <1>3, FrameFacts, ExceptSeq
<1>5. DOMAIN frames' = 1..Len(frames)
  BY <1>4, LenProperties
<1> QED BY <1>1, <1>4, <1>5, FrameFacts DEF Frame

\* The innermost activation returns.
LEMMA ReturnFacts ==
  ASSUME TypeOK, Running, frames' = SubSeq(frames, 1, Len(frames) - 1)
  PROVE  /\ frames' \in Seq(Frame)
         /\ Len(frames') = Len(frames) - 1
         /\ DOMAIN frames' = 1..(Len(frames) - 1)
         /\ \A i \in DOMAIN frames' : frames'[i] = frames[i]
         /\ DOMAIN frames = DOMAIN frames' \cup {Len(frames)}
<1>1. Len(frames) - 1 \in Nat /\ Len(frames) - 1 <= Len(frames)
  BY FrameFacts
<1>2. \A i \in 1..(Len(frames) - 1) : frames[i] \in Frame
  BY FrameFacts
<1>3. /\ frames' \in Seq(Frame)
      /\ Len(frames') = Len(frames) - 1
      /\ \A i \in 1..(Len(frames) - 1) : frames'[i] = frames[i]
  BY <1>1, <1>2, FrameFacts
<1>4. DOMAIN frames' = 1..(Len(frames) - 1)
  BY <1>3, LenProperties
<1> QED BY <1>1, <1>3, <1>4, FrameFacts

\* A new innermost activation.
LEMMA PushFacts ==
  ASSUME TypeOK, NEW frame \in Frame, frames' = Append(frames, frame)
  PROVE  /\ frames' \in Seq(Frame)
         /\ Len(frames') = Len(frames) + 1
         /\ DOMAIN frames' = 1..(Len(frames) + 1)
         /\ DOMAIN frames' = DOMAIN frames \cup {Len(frames) + 1}
         /\ Len(frames) + 1 \notin DOMAIN frames
         /\ \A i \in DOMAIN frames : frames'[i] = frames[i]
         /\ frames'[Len(frames) + 1] = frame
<1>1. /\ frames' \in Seq(Frame)
      /\ Len(frames') = Len(frames) + 1
      /\ \A i \in 1..Len(frames) : frames'[i] = frames[i]
      /\ frames'[Len(frames) + 1] = frame
  BY FrameFacts, AppendProperties
<1> QED BY <1>1, FrameFacts, LenProperties

-----------------------------------------------------------------------------
(* The inductive invariant: the tables tell one story, and every gate that *)
(* has left its cold path leads to published code.                         *)

IInv == RuntimeConsistent /\ GateLeadsToCode

\* The initial state: gates only, nothing encoded, nothing handed out.
LEMMA InitIInv == Init => IInv
<1> SUFFICES ASSUME Init PROVE IInv
  OBVIOUS
<1>1. TypeOK
  <2>1. frames \in Seq([block : Blocks, stage : Stages])
    BY EmptySeq DEF Init
  <2>2. used \in 0..Capacity /\ statistics \in [attempts : 0..MaxAttempts, compiled : Nat, batches : Nat]
    BY BlocksAssumption DEF Init
  <2> QED BY <2>1, <2>2, BlocksAssumption DEF Init, TypeOK
<1>2. DOMAIN frames = {} /\ Len(frames) = 0
  BY EmptySeq DEF Init
<1>3. CompilingIsActive
  BY <1>2 DEF Init, CompilingIsActive
<1>4. EdgesSelected
  BY DEF Init, EdgesSelected
<1>5. StagesStored
  BY <1>2, BlocksAssumption DEF Init, StagesStored
<1>6. StatisticsExact
  <2>1. {b \in Blocks : phase[b] = "compiled"} = {}
    BY DEF Init
  <2>2. Cardinality({b \in Blocks : phase[b] = "compiled"}) = 0
    BY <2>1, FS_EmptySet
  <2> QED BY <1>2, <2>2 DEF Init, StatisticsExact
<1>7. ArenaAccounted
  <2>1. \A b \in Blocks : Extent(b) = {}
    BY DEF Init, Extent, PagesFrom
  <2> QED BY <2>1 DEF Init, ArenaAccounted
<1>8. GateLeadsToCode
  BY DEF Init, GateLeadsToCode
<1> QED BY <1>1, <1>3, <1>4, <1>5, <1>6, <1>7, <1>8 DEF IInv, RuntimeConsistent

\* The block of the innermost activation.
LEMMA CurrentFacts ==
  ASSUME IInv, Running
  PROVE  /\ Current \in Blocks
         /\ Current \in selected
         /\ phase[Current] = "compiling"
         /\ code[Current] = None
         /\ destination[Current] = None
         /\ versions[Current] # None
<1>1. Len(frames) \in DOMAIN frames /\ Top \in Frame
  BY FrameFacts DEF IInv, RuntimeConsistent, Top
<1>2. Current \in Blocks
  BY <1>1 DEF Frame, Current
<1>3. Current \in selected /\ phase[Current] = "compiling"
  BY <1>1, <1>2 DEF IInv, RuntimeConsistent, StagesStored, CompilingIsActive, Current, Top
<1>4. code[Current] = None /\ destination[Current] = None
  BY <1>2, <1>3 DEF IInv, RuntimeConsistent, StagesStored, GateLeadsToCode
<1>5. versions[Current] # None
  BY <1>3 DEF IInv, RuntimeConsistent, StagesStored
<1> QED BY <1>2, <1>3, <1>4, <1>5

\* label_address selects a block that may have had no version.
LEMMA LabelAddressIInv ==
  ASSUME IInv, NEW b \in Labels, LabelAddress(b)
  PROVE  IInv'
<1>1. b \in Blocks /\ <<b, NoProperties>> \in Blocks \X Properties
  BY BlocksAssumption
<1>2. /\ versions' = request(versions, <<b, NoProperties>>)
      /\ selected' = selected \cup {b}
      /\ UNCHANGED <<phase, artifact, reservation, code, destination, used, pages, frames,
                     answer, statistics>>
  BY DEF LabelAddress
<1>3. versions \in Versions
  BY DEF IInv, RuntimeConsistent, TypeOK, Versions
<1>4. /\ versions' \in Versions
      /\ versions'[b] # None
      /\ \A c \in Blocks : versions[c] # None => versions'[c] = versions[c]
  BY <1>1, <1>2, <1>3, RequestFacts
<1>5. TypeOK'
  BY <1>1, <1>2, <1>4 DEF IInv, RuntimeConsistent, TypeOK, Versions
<1>6. CompilingIsActive'
  BY <1>2 DEF IInv, RuntimeConsistent, CompilingIsActive
<1>7. EdgesSelected'
  BY <1>2 DEF IInv, RuntimeConsistent, EdgesSelected
<1>8. StagesStored'
  <2>1. \A c \in selected' : versions'[c] # None
    BY <1>2, <1>4 DEF IInv, RuntimeConsistent, TypeOK, StagesStored
  <2> QED BY <1>2, <2>1 DEF IInv, RuntimeConsistent, StagesStored
<1>9. StatisticsExact'
  BY <1>2 DEF IInv, RuntimeConsistent, StatisticsExact
<1>10. ArenaAccounted'
  BY <1>2 DEF IInv, RuntimeConsistent, ArenaAccounted, Extent
<1>11. GateLeadsToCode'
  BY <1>2 DEF IInv, RuntimeConsistent, GateLeadsToCode
<1> QED BY <1>5, <1>6, <1>7, <1>8, <1>9, <1>10, <1>11 DEF IInv, RuntimeConsistent

\* A call that returns at once changes nothing but the answer.
LEMMA AnswerIInv ==
  ASSUME IInv, NEW b \in Blocks, CompileCompiled(b) \/ CompileRecursive(b)
  PROVE  IInv'
<1>1. /\ answer' \in [unit : Blocks \cup {None}, ok : BOOLEAN]
      /\ UNCHANGED <<versions, selected, phase, artifact, reservation, code, destination, used,
                     pages, frames, statistics>>
  <2>1. CASE CompileCompiled(b)
    BY <2>1 DEF CompileCompiled
  <2>2. CASE CompileRecursive(b)
    BY <2>2 DEF CompileRecursive
  <2> QED BY <2>1, <2>2
<1>2. TypeOK'
  BY <1>1 DEF IInv, RuntimeConsistent, TypeOK
<1>3. CompilingIsActive' /\ EdgesSelected' /\ StagesStored' /\ StatisticsExact'
  BY <1>1 DEF IInv, RuntimeConsistent, CompilingIsActive, EdgesSelected, StagesStored,
              StatisticsExact
<1>4. ArenaAccounted'
  BY <1>1 DEF IInv, RuntimeConsistent, ArenaAccounted, Extent
<1>5. GateLeadsToCode'
  BY <1>1 DEF IInv, GateLeadsToCode
<1> QED BY <1>2, <1>3, <1>4, <1>5 DEF IInv, RuntimeConsistent

\* An attempt on a cold block begins.
LEMMA CompileColdIInv ==
  ASSUME IInv, NEW b \in Blocks, CompileCold(b)
  PROVE  IInv'
<1>1. /\ b \in selected
      /\ phase[b] = "cold"
      /\ statistics.attempts < MaxAttempts
      /\ phase' = [phase EXCEPT ![b] = "compiling"]
      /\ statistics' = [statistics EXCEPT !.attempts = @ + 1]
      /\ frames' = Append(frames, [block |-> b, stage |-> "encode"])
      /\ UNCHANGED <<versions, selected, artifact, reservation, code, destination, used, pages,
                     answer>>
  BY DEF CompileCold
<1>2. TypeOK /\ [block |-> b, stage |-> "encode"] \in Frame
  BY DEF IInv, RuntimeConsistent, Frame, Stages
<1>3. PICK n \in Nat : n = Len(frames)
  BY <1>2, FrameFacts
<1>4. /\ frames' \in Seq(Frame)
      /\ Len(frames') = n + 1
      /\ DOMAIN frames' = DOMAIN frames \cup {n + 1}
      /\ n + 1 \notin DOMAIN frames
      /\ \A i \in DOMAIN frames : frames'[i] = frames[i]
      /\ frames'[n + 1] = [block |-> b, stage |-> "encode"]
  BY <1>1, <1>2, <1>3, PushFacts
<1>5. /\ statistics'.attempts = statistics.attempts + 1
      /\ statistics'.compiled = statistics.compiled
      /\ statistics'.batches = statistics.batches
      /\ statistics' \in [attempts : 0..MaxAttempts, compiled : Nat, batches : Nat]
  <2>1. statistics \in [attempts : 0..MaxAttempts, compiled : Nat, batches : Nat]
    BY <1>2 DEF TypeOK
  <2>2. statistics.attempts + 1 \in 0..MaxAttempts
    BY <1>1, <2>1, BlocksAssumption
  <2> QED BY <1>1, <2>1, <2>2
<1>6. phase \in [Blocks -> {"cold", "compiling", "compiled"}]
  BY <1>2 DEF TypeOK
<1>7. TypeOK'
  BY <1>1, <1>2, <1>4, <1>5, <1>6 DEF TypeOK, Frame
<1>8. CompilingIsActive'
  <2>1. ~\E i \in DOMAIN frames : frames[i].block = b
    BY <1>1 DEF IInv, RuntimeConsistent, CompilingIsActive
  <2>2. \A c \in Blocks : phase'[c] = "compiling" <=> \E i \in DOMAIN frames' : frames'[i].block = c
    BY <1>1, <1>4, <1>6 DEF IInv, RuntimeConsistent, CompilingIsActive
  <2>3. \A i, j \in DOMAIN frames' : frames'[i].block = frames'[j].block => i = j
    BY <1>4, <2>1 DEF IInv, RuntimeConsistent, CompilingIsActive
  <2> QED BY <2>2, <2>3 DEF CompilingIsActive
<1>9. EdgesSelected'
  BY <1>1 DEF IInv, RuntimeConsistent, EdgesSelected
<1>10. StagesStored'
  <2>1. \A c \in Blocks : code'[c] # None => phase'[c] = "compiled" /\ artifact'[c] # None
    BY <1>1, <1>6 DEF IInv, RuntimeConsistent, StagesStored
  <2>2. \A i \in DOMAIN frames' :
          /\ frames'[i].block \in selected'
          /\ frames'[i].stage # "encode" => artifact'[frames'[i].block] # None
          /\ frames'[i].stage \in {"relocate", "publish"} => reservation'[frames'[i].block] # None
    BY <1>1, <1>4 DEF IInv, RuntimeConsistent, StagesStored
  <2> QED BY <1>1, <2>1, <2>2 DEF IInv, RuntimeConsistent, StagesStored
<1>11. StatisticsExact'
  <2>1. {c \in Blocks : phase'[c] = "compiled"} = {c \in Blocks : phase[c] = "compiled"}
    BY <1>1, <1>6
  <2>2. statistics.compiled \in Nat /\ statistics.attempts \in Nat
    BY <1>2 DEF TypeOK
  <2>3. statistics.compiled + n <= statistics.attempts
    BY <1>3 DEF IInv, RuntimeConsistent, StatisticsExact
  <2>4. statistics'.compiled + Len(frames') <= statistics'.attempts
    BY <1>3, <1>4, <1>5, <2>2, <2>3
  <2> QED BY <1>5, <2>1, <2>4 DEF IInv, RuntimeConsistent, StatisticsExact
<1>12. ArenaAccounted'
  BY <1>1 DEF IInv, RuntimeConsistent, ArenaAccounted, Extent
<1>13. GateLeadsToCode'
  <2>1. destination[b] = None
    BY <1>1 DEF IInv, GateLeadsToCode
  <2>2. \A c \in Blocks : destination'[c] # None <=> phase'[c] = "compiled"
    BY <1>1, <1>6, <2>1 DEF IInv, GateLeadsToCode
  <2> QED BY <1>1, <2>2 DEF IInv, GateLeadsToCode
<1> QED BY <1>7, <1>8, <1>9, <1>10, <1>11, <1>12, <1>13 DEF IInv, RuntimeConsistent

\* What a stage that goes on leaves true of the stack, when it only adds to the
\* tables.
LEMMA AdvanceStack ==
  ASSUME IInv, Running, NEW stage \in Stages \ {"encode"}, GoTo(stage),
         UNCHANGED <<phase, code, statistics>>,
         selected \subseteq selected',
         \A c \in selected' : versions'[c] # None,
         \A c \in Blocks : artifact[c] # None => artifact'[c] # None,
         artifact'[Current] # None,
         \A c \in Blocks : reservation[c] # None => reservation'[c] # None,
         stage \in {"relocate", "publish"} => reservation'[Current] # None
  PROVE  /\ frames' \in Seq(Frame)
         /\ CompilingIsActive'
         /\ StagesStored'
         /\ StatisticsExact'
<1>1. TypeOK /\ Len(frames) \in DOMAIN frames
  BY FrameFacts DEF IInv, RuntimeConsistent
<1>2. /\ frames' \in Seq(Frame)
      /\ Len(frames') = Len(frames)
      /\ DOMAIN frames' = DOMAIN frames
      /\ \A i \in DOMAIN frames :
           /\ frames'[i].block = frames[i].block
           /\ frames'[i].stage = IF i = Len(frames) THEN stage ELSE frames[i].stage
  BY <1>1, GoToFacts
<1>3. CompilingIsActive'
  BY <1>2 DEF IInv, RuntimeConsistent, CompilingIsActive
<1>4. StagesStored'
  <2>1. ASSUME NEW i \in DOMAIN frames'
        PROVE  /\ frames'[i].block \in selected'
               /\ frames'[i].stage # "encode" => artifact'[frames'[i].block] # None
               /\ frames'[i].stage \in {"relocate", "publish"} =>
                    reservation'[frames'[i].block] # None
    <3>1. frames[i].block \in Blocks /\ frames[i].block \in selected
      BY <1>1, <1>2, FrameFacts DEF Frame, IInv, RuntimeConsistent, StagesStored
    <3>2. CASE i = Len(frames)
      <4>1. frames'[i].block = Current
        BY <1>2, <3>2 DEF Current, Top
      <4> QED BY <1>2, <3>1, <3>2, <4>1
    <3>3. CASE i # Len(frames)
      <4>1. /\ frames'[i].block = frames[i].block
            /\ frames'[i].stage = frames[i].stage
        BY <1>2, <3>3
      <4> QED BY <1>2, <3>1, <4>1 DEF IInv, RuntimeConsistent, StagesStored
    <3> QED BY <3>2, <3>3
  <2>2. \A c \in Blocks : code'[c] # None => phase'[c] = "compiled" /\ artifact'[c] # None
    BY DEF IInv, RuntimeConsistent, StagesStored
  <2> QED BY <2>1, <2>2 DEF StagesStored
<1>5. StatisticsExact'
  BY <1>2 DEF IInv, RuntimeConsistent, StatisticsExact
<1> QED BY <1>2, <1>3, <1>4, <1>5

\* Stages that find their result, and the observer's consent.
LEMMA GoOnIInv ==
  ASSUME IInv, EncodeKept \/ Observe \/ ReserveKept \/ Relocate
  PROVE  IInv'
<1>1. /\ Running
      /\ UNCHANGED <<versions, selected, phase, artifact, reservation, code, destination, used,
                     pages, answer, statistics>>
  BY DEF EncodeKept, Observe, ReserveKept, Relocate, At
<1>2. /\ Current \in Blocks
      /\ Top.stage # "encode" => artifact[Current] # None
      /\ Top.stage \in {"relocate", "publish"} => reservation[Current] # None
  <2>1. Len(frames) \in DOMAIN frames
    BY <1>1, FrameFacts DEF IInv, RuntimeConsistent
  <2> QED BY <1>1, <2>1, CurrentFacts DEF IInv, RuntimeConsistent, StagesStored, Current, Top
<1>3. PICK stage \in Stages \ {"encode"} :
        /\ GoTo(stage)
        /\ artifact[Current] # None
        /\ stage \in {"relocate", "publish"} => reservation[Current] # None
  BY <1>2 DEF EncodeKept, Observe, ReserveKept, Relocate, At, Stages
<1>4. /\ frames' \in Seq(Frame)
      /\ CompilingIsActive'
      /\ StagesStored'
      /\ StatisticsExact'
  <2>1. \A c \in selected : versions[c] # None
    BY DEF IInv, RuntimeConsistent, StagesStored
  <2> QED BY <1>1, <1>3, <2>1, AdvanceStack
<1>5. TypeOK'
  BY <1>1, <1>4 DEF IInv, RuntimeConsistent, TypeOK, Frame
<1>6. EdgesSelected'
  BY <1>1 DEF IInv, RuntimeConsistent, EdgesSelected
<1>7. ArenaAccounted'
  BY <1>1 DEF IInv, RuntimeConsistent, ArenaAccounted, Extent
<1>8. GateLeadsToCode'
  BY <1>1 DEF IInv, GateLeadsToCode
<1> QED BY <1>4, <1>5, <1>6, <1>7, <1>8 DEF IInv, RuntimeConsistent

\* Encoding stores the artifact and remembers its successors, which then have
\* versions.
LEMMA EncodeIInv ==
  ASSUME IInv, Encode
  PROVE  IInv'
<1>1. Running /\ artifact[Current] = None /\ GoTo("observe")
  BY DEF Encode, At
<1>2. PICK b \in Blocks : b = Current
  BY <1>1, CurrentFacts
<1>3. /\ versions' = specialize(versions, b)
      /\ selected' = selected \cup Successors(b)
      /\ artifact' = [artifact EXCEPT ![b] = Successors(b)]
      /\ UNCHANGED <<phase, reservation, code, destination, used, pages, answer, statistics>>
  BY <1>2 DEF Encode
<1>4. versions \in Versions /\ versions[b] # None
  BY <1>1, <1>2, CurrentFacts DEF IInv, RuntimeConsistent, TypeOK, Versions
<1>5. /\ versions' \in Versions
      /\ \A c \in Blocks : versions[c] # None => versions'[c] = versions[c]
      /\ Successors(b) \subseteq Blocks
      /\ \A c \in Successors(b) : versions'[c] # None
  <2>1. /\ specialize(versions, b) \in Versions
        /\ \A c \in Blocks : versions[c] # None => specialize(versions, b)[c] = versions[c]
        /\ \A i \in DOMAIN Flow[b][versions[b]] :
             /\ Flow[b][versions[b]][i][1] \in Blocks
             /\ specialize(versions, b)[Flow[b][versions[b]][i][1]] # None
    BY <1>4, SpecializeFacts
  <2>2. /\ Successors(b) \subseteq Blocks
        /\ \A c \in Successors(b) : specialize(versions, b)[c] # None
    BY <2>1 DEF Successors
  <2> QED BY <1>3, <2>1, <2>2
<1>6. artifact \in [Blocks -> (SUBSET Blocks) \cup {None}] /\ selected \subseteq Blocks
  BY DEF IInv, RuntimeConsistent, TypeOK
<1>7. /\ artifact'[b] = Successors(b)
      /\ artifact'[b] # None
      /\ \A c \in Blocks : artifact[c] # None => artifact'[c] = artifact[c]
      /\ \A c \in Blocks \ {b} : artifact'[c] = artifact[c]
  BY <1>1, <1>2, <1>3, <1>5, <1>6, BlocksAssumption
<1>8. /\ frames' \in Seq(Frame)
      /\ CompilingIsActive'
      /\ StagesStored'
      /\ StatisticsExact'
  <2>1. \A c \in selected' : versions'[c] # None
    BY <1>3, <1>5, <1>6 DEF IInv, RuntimeConsistent, StagesStored
  <2>2. "observe" \in Stages \ {"encode"}
    BY DEF Stages
  <2> QED BY <1>1, <1>2, <1>3, <1>7, <2>1, <2>2, AdvanceStack
<1>9. TypeOK'
  <2>1. artifact' \in [Blocks -> (SUBSET Blocks) \cup {None}]
    BY <1>3, <1>5, <1>6
  <2> QED BY <1>3, <1>5, <1>6, <1>8, <2>1 DEF IInv, RuntimeConsistent, TypeOK, Frame, Versions
<1>10. EdgesSelected'
  BY <1>3, <1>7 DEF IInv, RuntimeConsistent, EdgesSelected
<1>11. ArenaAccounted'
  BY <1>3 DEF IInv, RuntimeConsistent, ArenaAccounted, Extent
<1>12. GateLeadsToCode'
  <2>1. destination[b] = None
    BY <1>1, <1>2, CurrentFacts
  <2> QED BY <1>3, <1>7, <2>1 DEF IInv, GateLeadsToCode
<1> QED BY <1>8, <1>9, <1>10, <1>11, <1>12 DEF IInv, RuntimeConsistent

\* Pages handed out to one block extend what is accounted for, and reach no
\* page of another block.
LEMMA ReserveIInv ==
  ASSUME IInv, Reserve
  PROVE  IInv'
<1>1. Running /\ reservation[Current] = None /\ GoTo("relocate") /\ Top.stage = "reserve"
  BY DEF Reserve, At
<1>2. PICK b \in Blocks : b = Current
  BY <1>1, CurrentFacts
<1>3. /\ Size[b] <= Capacity - used
      /\ reservation' = [reservation EXCEPT ![b] = used]
      /\ used' = used + Size[b]
      /\ UNCHANGED <<versions, selected, phase, artifact, code, destination, pages, answer, statistics>>
  BY <1>2 DEF Reserve
<1>4. PICK u \in Nat : u = used /\ u \in PageIds
  <2>1. used \in Nat /\ Size[b] \in Nat \ {0} /\ Capacity \in Nat
    BY BlocksAssumption DEF IInv, RuntimeConsistent, TypeOK
  <2> QED BY <1>3, <2>1 DEF PageIds
<1>5. Size \in [Blocks -> Nat \ {0}] /\ Capacity \in Nat /\ u # None
  BY <1>4, BlocksAssumption
<1>6. reservation \in [Blocks -> PageIds \cup {None}]
  BY DEF IInv, RuntimeConsistent, TypeOK
<1>7. /\ reservation'[b] = u
      /\ \A c \in Blocks \ {b} : reservation'[c] = reservation[c]
      /\ reservation[b] = None
      /\ reservation' \in [Blocks -> PageIds \cup {None}]
  BY <1>1, <1>2, <1>3, <1>4, <1>6
<1>8. /\ frames' \in Seq(Frame)
      /\ CompilingIsActive'
      /\ StagesStored'
      /\ StatisticsExact'
  <2>1. \A c \in selected' : versions'[c] # None
    BY <1>3 DEF IInv, RuntimeConsistent, StagesStored
  <2>2. artifact[b] # None
    <3>1. Len(frames) \in DOMAIN frames
      BY <1>1, FrameFacts DEF IInv, RuntimeConsistent
    <3> QED BY <1>1, <1>2, <3>1 DEF IInv, RuntimeConsistent, StagesStored, Current, Top
  <2>3. "relocate" \in Stages \ {"encode"}
    BY DEF Stages
  <2>4. \A c \in Blocks : reservation[c] # None => reservation'[c] # None
    BY <1>5, <1>7
  <2> QED BY <1>1, <1>2, <1>3, <1>5, <1>7, <2>1, <2>2, <2>3, <2>4, AdvanceStack
<1>9. TypeOK'
  <2>1. used' \in 0..Capacity
    BY <1>3, <1>4, <1>5
  <2> QED BY <1>3, <1>7, <1>8, <2>1 DEF IInv, RuntimeConsistent, TypeOK, Frame
<1>10. EdgesSelected'
  BY <1>3 DEF IInv, RuntimeConsistent, EdgesSelected
<1>11. ArenaAccounted'
  <2>1. code[b] = None
    BY <1>1, <1>2, CurrentFacts
  <2>2. Extent(b) = {} /\ Extent(b)' = u..(u + Size[b] - 1)
    BY <1>3, <1>5, <1>7, <2>1 DEF Extent, PagesFrom
  <2>3. \A c \in Blocks \ {b} : Extent(c)' = Extent(c)
    BY <1>3, <1>7 DEF Extent, PagesFrom
  <2>4. UNION {Extent(c) : c \in Blocks} = 0..(u - 1)
    BY <1>4 DEF IInv, RuntimeConsistent, ArenaAccounted
  <2>5. \A c \in Blocks : Extent(c) \subseteq 0..(u - 1)
    BY <2>4
  <2>6. UNION {Extent(c)' : c \in Blocks} = (0..(u - 1)) \cup (u..(u + Size[b] - 1))
    BY <2>2, <2>3, <2>4
  <2>7. (0..(u - 1)) \cup (u..(u + Size[b] - 1)) = 0..(u + Size[b] - 1)
    <3>1. Size[b] \in Nat
      BY <1>5
    <3> QED BY <3>1
  <2>8. \A c \in Blocks \ {b} : Extent(b)' \cap Extent(c)' = {}
    <3>1. Size[b] \in Nat
      BY <1>5
    <3>2. (u..(u + Size[b] - 1)) \cap (0..(u - 1)) = {}
      BY <3>1
    <3> QED BY <2>2, <2>3, <2>5, <3>2
  <2>9. \A c, d \in Blocks : c # d => Extent(c)' \cap Extent(d)' = {}
    BY <2>3, <2>8 DEF IInv, RuntimeConsistent, ArenaAccounted
  <2>10. \A c \in Blocks : code'[c] # None => reservation'[c] = None
    BY <1>3, <1>7, <2>1 DEF IInv, RuntimeConsistent, ArenaAccounted
  <2>11. UNION {Extent(c)' : c \in Blocks} = 0..(used' - 1)
    <3>1. used' = u + Size[b]
      BY <1>3, <1>4
    <3>2. UNION {Extent(c)' : c \in Blocks} = 0..(u + Size[b] - 1)
      BY <2>6, <2>7
    <3>3. 0..(used' - 1) = 0..(u + Size[b] - 1)
      <4>1. Size[b] \in Nat
        BY <1>5
      <4> QED BY <3>1, <4>1
    <3> QED BY <3>2, <3>3
  <2> QED BY <2>9, <2>10, <2>11 DEF ArenaAccounted
<1>12. GateLeadsToCode'
  BY <1>3 DEF IInv, GateLeadsToCode
<1> QED BY <1>8, <1>9, <1>10, <1>11, <1>12 DEF IInv, RuntimeConsistent

\* What the return of the innermost activation leaves true of the stack.
LEMMA ReturnStack ==
  ASSUME IInv, Running, NEW ok \in BOOLEAN, Return(ok), NEW b \in Blocks, b = Current
  PROVE  /\ frames' \in Seq(Frame)
         /\ Len(frames') = Len(frames) - 1
         /\ answer' = [unit |-> b, ok |-> ok]
         /\ phase' \in [Blocks -> {"cold", "compiling", "compiled"}]
         /\ phase'[b] = IF ok THEN "compiled" ELSE "cold"
         /\ \A c \in Blocks \ {b} : phase'[c] = phase[c]
         /\ \A i \in DOMAIN frames' : i \in DOMAIN frames /\ frames'[i] = frames[i]
         /\ \A i \in DOMAIN frames' : frames'[i].block \in Blocks \ {b}
         /\ CompilingIsActive'
<1>1. TypeOK /\ Len(frames) \in DOMAIN frames /\ Len(frames) \in Nat /\ b = frames[Len(frames)].block
  BY FrameFacts DEF IInv, RuntimeConsistent, Current, Top
<1>2. /\ frames' = SubSeq(frames, 1, Len(frames) - 1)
      /\ answer' = [unit |-> b, ok |-> ok]
      /\ phase' = [phase EXCEPT ![b] = IF ok THEN "compiled" ELSE "cold"]
  BY DEF Return
<1>3. /\ frames' \in Seq(Frame)
      /\ Len(frames') = Len(frames) - 1
      /\ DOMAIN frames' = 1..(Len(frames) - 1)
      /\ \A i \in DOMAIN frames' : frames'[i] = frames[i]
      /\ DOMAIN frames = DOMAIN frames' \cup {Len(frames)}
  BY <1>1, <1>2, ReturnFacts
<1>4. phase \in [Blocks -> {"cold", "compiling", "compiled"}]
  BY <1>1 DEF TypeOK
<1>5. /\ phase' \in [Blocks -> {"cold", "compiling", "compiled"}]
      /\ phase'[b] = IF ok THEN "compiled" ELSE "cold"
      /\ \A c \in Blocks \ {b} : phase'[c] = phase[c]
  BY <1>2, <1>4
<1>6. \A i \in DOMAIN frames' : i \in DOMAIN frames /\ i # Len(frames)
  BY <1>1, <1>3
<1>7. ASSUME NEW i \in DOMAIN frames'
      PROVE  frames'[i].block \in Blocks \ {b}
  <2>1. frames[i].block \in Blocks
    BY <1>1, <1>6, FrameFacts DEF Frame
  <2>2. frames[i].block # b
    BY <1>1, <1>6 DEF IInv, RuntimeConsistent, CompilingIsActive
  <2> QED BY <1>3, <2>1, <2>2
<1>8. CompilingIsActive'
  <2>1. ASSUME NEW c \in Blocks
        PROVE  phase'[c] = "compiling" <=> \E i \in DOMAIN frames' : frames'[i].block = c
    <3>1. CASE c = b
      BY <1>5, <1>7, <3>1
    <3>2. CASE c # b
      <4>1. phase[c] = "compiling" <=> \E i \in DOMAIN frames : frames[i].block = c
        BY DEF IInv, RuntimeConsistent, CompilingIsActive
      <4>2. \A i \in DOMAIN frames : frames[i].block = c => i \in DOMAIN frames'
        BY <1>1, <1>3, <3>2
      <4> QED BY <1>3, <1>5, <1>6, <3>2, <4>1, <4>2
    <3> QED BY <3>1, <3>2
  <2>2. \A i, j \in DOMAIN frames' : frames'[i].block = frames'[j].block => i = j
    BY <1>3, <1>6 DEF IInv, RuntimeConsistent, CompilingIsActive
  <2> QED BY <2>1, <2>2 DEF CompilingIsActive
<1> QED BY <1>2, <1>3, <1>5, <1>6, <1>7, <1>8

\* A failing stage leaves what is stored: its block is cold again.
LEMMA FailIInv ==
  ASSUME IInv, EncodeFails \/ ObserveFails \/ ReserveFails \/ RelocateFails \/ PublishFails
  PROVE  IInv'
<1>1. /\ Running
      /\ Return(FALSE)
      /\ UNCHANGED <<selected, artifact, reservation, code, destination, used, pages, statistics>>
      /\ versions' = versions \/ versions' = specialize(versions, Current)
  BY DEF EncodeFails, ObserveFails, ReserveFails, RelocateFails, PublishFails, At
<1>2. PICK b \in Blocks : b = Current
  BY <1>1, CurrentFacts
<1>3. code[b] = None /\ destination[b] = None /\ phase[b] = "compiling" /\ versions[b] # None
  BY <1>1, <1>2, CurrentFacts
<1>4. TypeOK /\ versions \in Versions
  BY DEF IInv, RuntimeConsistent, TypeOK, Versions
<1>5. versions' \in Versions /\ \A c \in Blocks : versions[c] # None => versions'[c] = versions[c]
  BY <1>1, <1>2, <1>3, <1>4, SpecializeFacts
<1>6. /\ frames' \in Seq(Frame)
      /\ Len(frames') = Len(frames) - 1
      /\ answer' = [unit |-> b, ok |-> FALSE]
      /\ phase' \in [Blocks -> {"cold", "compiling", "compiled"}]
      /\ phase'[b] = "cold"
      /\ \A c \in Blocks \ {b} : phase'[c] = phase[c]
      /\ \A i \in DOMAIN frames' : i \in DOMAIN frames /\ frames'[i] = frames[i]
      /\ CompilingIsActive'
  BY <1>1, <1>2, ReturnStack
<1>7. TypeOK'
  BY <1>1, <1>4, <1>5, <1>6 DEF TypeOK, Frame, Versions
<1>8. EdgesSelected'
  BY <1>1 DEF IInv, RuntimeConsistent, EdgesSelected
<1>9. StagesStored'
  <2>1. \A c \in selected' : versions'[c] # None
    BY <1>1, <1>4, <1>5 DEF IInv, RuntimeConsistent, StagesStored, TypeOK
  <2>2. \A c \in Blocks : code'[c] # None => phase'[c] = "compiled" /\ artifact'[c] # None
    BY <1>1, <1>3, <1>6 DEF IInv, RuntimeConsistent, StagesStored
  <2> QED BY <1>1, <1>6, <2>1, <2>2 DEF IInv, RuntimeConsistent, StagesStored
<1>10. StatisticsExact'
  <2>1. {c \in Blocks : phase'[c] = "compiled"} = {c \in Blocks : phase[c] = "compiled"}
    BY <1>3, <1>6
  <2>2. statistics.compiled \in Nat /\ statistics.attempts \in Nat /\ Len(frames) \in Nat
    BY <1>4, FrameFacts DEF TypeOK
  <2>3. statistics.compiled + Len(frames) <= statistics.attempts
    BY DEF IInv, RuntimeConsistent, StatisticsExact
  <2>4. statistics'.compiled + Len(frames') <= statistics'.attempts
    BY <1>1, <1>6, <2>2, <2>3
  <2> QED BY <1>1, <2>1, <2>4 DEF IInv, RuntimeConsistent, StatisticsExact
<1>11. ArenaAccounted'
  BY <1>1 DEF IInv, RuntimeConsistent, ArenaAccounted, Extent
<1>12. GateLeadsToCode'
  <2>1. \A c \in Blocks : destination'[c] # None <=> phase'[c] = "compiled"
    BY <1>1, <1>3, <1>6 DEF IInv, GateLeadsToCode
  <2> QED BY <1>1, <2>1 DEF IInv, GateLeadsToCode
<1> QED BY <1>7, <1>8, <1>9, <1>10, <1>11, <1>12, <1>6 DEF IInv, RuntimeConsistent

\* Publication turns what the block holds into what it occupies, and writes no
\* page of another block.
LEMMA PublishIInv ==
  ASSUME IInv, Publish
  PROVE  IInv'
<1>1. Running /\ Return(TRUE) /\ Top.stage = "publish"
  BY DEF Publish, At
<1>2. PICK b \in Blocks : b = Current
  BY <1>1, CurrentFacts
<1>3. /\ code[b] = None /\ destination[b] = None /\ phase[b] = "compiling"
      /\ artifact[b] # None /\ reservation[b] # None
  <2>1. Len(frames) \in DOMAIN frames
    BY <1>1, FrameFacts DEF IInv, RuntimeConsistent
  <2>2. artifact[b] # None /\ reservation[b] # None
    BY <1>1, <1>2, <2>1 DEF IInv, RuntimeConsistent, StagesStored, Current, Top
  <2> QED BY <1>1, <1>2, <2>2, CurrentFacts
<1>4. TypeOK
  BY DEF IInv, RuntimeConsistent
<1>5. PICK first \in PageIds : first = reservation[b]
  BY <1>3, <1>4 DEF TypeOK
<1>6. /\ pages' = [n \in PageIds |->
                     IF n \in first..(first + Size[b] - 1) THEN artifact[b] ELSE pages[n]]
      /\ code' = [code EXCEPT ![b] = first]
      /\ reservation' = [reservation EXCEPT ![b] = None]
      /\ destination' = [destination EXCEPT ![b] = first]
      /\ statistics' = [statistics EXCEPT !.compiled = @ + 1, !.batches = @ + 1]
      /\ UNCHANGED <<versions, selected, artifact, used>>
  BY <1>2, <1>5 DEF Publish
<1>7. /\ frames' \in Seq(Frame)
      /\ Len(frames') = Len(frames) - 1
      /\ answer' = [unit |-> b, ok |-> TRUE]
      /\ phase' \in [Blocks -> {"cold", "compiling", "compiled"}]
      /\ phase'[b] = "compiled"
      /\ \A c \in Blocks \ {b} : phase'[c] = phase[c]
      /\ \A i \in DOMAIN frames' : i \in DOMAIN frames /\ frames'[i] = frames[i]
      /\ \A i \in DOMAIN frames' : frames'[i].block \in Blocks \ {b}
      /\ CompilingIsActive'
  BY <1>1, <1>2, ReturnStack
<1>8. first # None /\ first \in Nat /\ Size[b] \in Nat \ {0} /\ Capacity \in Nat
  BY BlocksAssumption DEF PageIds
<1>9. /\ code' \in [Blocks -> PageIds \cup {None}]
      /\ destination' \in [Blocks -> PageIds \cup {None}]
      /\ reservation' \in [Blocks -> PageIds \cup {None}]
      /\ pages' \in [PageIds -> (SUBSET Blocks) \cup {None}]
      /\ code'[b] = first /\ destination'[b] = first /\ reservation'[b] = None
      /\ \A c \in Blocks \ {b} : /\ code'[c] = code[c]
                                 /\ destination'[c] = destination[c]
                                 /\ reservation'[c] = reservation[c]
  BY <1>4, <1>6 DEF TypeOK
<1>10. /\ statistics'.attempts = statistics.attempts
       /\ statistics'.compiled = statistics.compiled + 1
       /\ statistics'.batches = statistics.batches + 1
       /\ statistics' \in [attempts : 0..MaxAttempts, compiled : Nat, batches : Nat]
  <2>1. statistics \in [attempts : 0..MaxAttempts, compiled : Nat, batches : Nat]
    BY <1>4 DEF TypeOK
  <2>2. statistics.compiled + 1 \in Nat /\ statistics.batches + 1 \in Nat
    BY <2>1
  <2> QED BY <1>6, <2>1, <2>2
<1>11. TypeOK'
  BY <1>4, <1>6, <1>7, <1>9, <1>10 DEF TypeOK, Frame
<1>12. EdgesSelected'
  BY <1>6 DEF IInv, RuntimeConsistent, EdgesSelected
<1>13. StagesStored'
  <2>1. \A c \in selected' : versions'[c] # None
    BY <1>6 DEF IInv, RuntimeConsistent, StagesStored
  <2>2. \A c \in Blocks : code'[c] # None => phase'[c] = "compiled" /\ artifact'[c] # None
    BY <1>3, <1>6, <1>7, <1>9 DEF IInv, RuntimeConsistent, StagesStored
  <2>3. ASSUME NEW i \in DOMAIN frames'
        PROVE  /\ frames'[i].block \in selected'
               /\ frames'[i].stage # "encode" => artifact'[frames'[i].block] # None
               /\ frames'[i].stage \in {"relocate", "publish"} =>
                    reservation'[frames'[i].block] # None
    BY <1>6, <1>7, <1>9 DEF IInv, RuntimeConsistent, StagesStored
  <2> QED BY <2>1, <2>2, <2>3 DEF StagesStored
<1>14. StatisticsExact'
  <2> DEFINE before == {c \in Blocks : phase[c] = "compiled"}
  <2>1. {c \in Blocks : phase'[c] = "compiled"} = before \cup {b} /\ b \notin before
    BY <1>3, <1>7
  <2>2. IsFiniteSet(before)
    BY BlocksAssumption, FS_Subset
  <2>3. Cardinality(before \cup {b}) = Cardinality(before) + 1
    <3> HIDE DEF before
    <3> QED BY <2>1, <2>2, FS_AddElement
  <2>4. statistics.compiled \in Nat /\ statistics.attempts \in Nat /\ Len(frames) \in Nat
        /\ statistics.batches \in Nat
    BY <1>4, FrameFacts DEF TypeOK
  <2>5. /\ statistics.compiled = Cardinality(before)
        /\ statistics.batches = 1 + statistics.compiled
        /\ statistics.compiled + Len(frames) <= statistics.attempts
    BY DEF IInv, RuntimeConsistent, StatisticsExact
  <2>6. Cardinality({c \in Blocks : phase'[c] = "compiled"}) = statistics.compiled + 1
    BY <2>1, <2>3, <2>5
  <2> HIDE DEF before
  <2> QED BY <1>7, <1>10, <2>4, <2>5, <2>6 DEF StatisticsExact
<1>15. \A c \in Blocks : Extent(c)' = Extent(c)
  <2>1. Extent(b)' = Extent(b)
    BY <1>3, <1>5, <1>8, <1>9 DEF Extent, PagesFrom
  <2>2. \A c \in Blocks \ {b} : Extent(c)' = Extent(c)
    BY <1>9 DEF Extent, PagesFrom
  <2> QED BY <2>1, <2>2
<1>16. ArenaAccounted'
  <2>1. \A c \in Blocks : code'[c] # None => reservation'[c] = None
    BY <1>9 DEF IInv, RuntimeConsistent, ArenaAccounted
  <2>2. UNION {Extent(c)' : c \in Blocks} = UNION {Extent(c) : c \in Blocks}
    BY <1>15
  <2> QED BY <1>6, <1>15, <2>1, <2>2 DEF IInv, RuntimeConsistent, ArenaAccounted
<1>17. GateLeadsToCode'
  <2>1. ASSUME NEW c \in Blocks
        PROVE  destination'[c] # None <=> phase'[c] = "compiled"
    BY <1>7, <1>8, <1>9 DEF IInv, GateLeadsToCode
  <2>2. ASSUME NEW c \in Blocks, destination'[c] # None
        PROVE  destination'[c] = code'[c] /\ artifact'[c] \subseteq selected'
    BY <1>3, <1>6, <1>9, <2>2 DEF IInv, RuntimeConsistent, EdgesSelected, GateLeadsToCode
  <2>3. \A c \in Blocks : PagesFrom(code'[c], c) \subseteq 0..(used - 1)
    <3>1. \A c \in Blocks : PagesFrom(code'[c], c) \subseteq Extent(c)'
      BY DEF Extent
    <3>2. \A c \in Blocks : Extent(c) \subseteq 0..(used - 1)
      BY DEF IInv, RuntimeConsistent, ArenaAccounted
    <3> QED BY <1>15, <3>1, <3>2
  <2>4. 0..(used - 1) \subseteq PageIds
    BY <1>4, <1>8 DEF TypeOK, PageIds
  <2>5. ASSUME NEW c \in Blocks, destination'[c] # None,
               NEW n \in code'[c]..(code'[c] + Size[c] - 1)
        PROVE  pages'[n] = artifact'[c]
    <3>1. n \in PagesFrom(code'[c], c) /\ n \in PageIds
      BY <1>8, <1>9, <2>2, <2>3, <2>4, <2>5 DEF PagesFrom
    <3>2. CASE c = b
      BY <1>6, <1>9, <3>1, <3>2
    <3>3. CASE c # b
      <4>1. n \in Extent(c) /\ destination[c] # None /\ code'[c] = code[c]
        BY <1>9, <1>15, <2>5, <3>1, <3>3 DEF Extent
      <4>2. first..(first + Size[b] - 1) \subseteq Extent(b)
        BY <1>3, <1>5 DEF Extent, PagesFrom
      <4>3. n \notin first..(first + Size[b] - 1)
        BY <3>3, <4>1, <4>2 DEF IInv, RuntimeConsistent, ArenaAccounted
      <4>4. pages[n] = artifact[c]
        BY <2>5, <4>1 DEF IInv, GateLeadsToCode
      <4> QED BY <1>6, <3>1, <4>3, <4>4
    <3> QED BY <3>2, <3>3
  <2> QED BY <2>1, <2>2, <2>5 DEF GateLeadsToCode
<1> QED BY <1>7, <1>11, <1>12, <1>13, <1>14, <1>16, <1>17 DEF IInv, RuntimeConsistent

\* Every step keeps the invariant.
LEMMA StepIInv == IInv /\ [Next]_vars => IInv'
<1> SUFFICES ASSUME IInv, [Next]_vars PROVE IInv'
  OBVIOUS
<1>1. CASE UNCHANGED vars
  <2>1. UNCHANGED <<versions, selected, phase, artifact, reservation, code, destination, used,
                    pages, frames, answer, statistics>>
    BY <1>1 DEF vars
  <2> QED BY <2>1 DEF IInv, RuntimeConsistent, TypeOK, CompilingIsActive, EdgesSelected,
             StagesStored, StatisticsExact, ArenaAccounted, Extent, GateLeadsToCode
<1>2. ASSUME NEW b \in Labels, LabelAddress(b) PROVE IInv'
  BY <1>2, LabelAddressIInv
<1>3. ASSUME NEW b \in Blocks, CompileCold(b) PROVE IInv'
  BY <1>3, CompileColdIInv
<1>4. ASSUME NEW b \in Blocks, CompileCompiled(b) \/ CompileRecursive(b) PROVE IInv'
  BY <1>4, AnswerIInv
<1>5. CASE EncodeKept \/ Observe \/ ReserveKept \/ Relocate
  BY <1>5, GoOnIInv
<1>6. CASE Encode
  BY <1>6, EncodeIInv
<1>7. CASE Reserve
  BY <1>7, ReserveIInv
<1>8. CASE EncodeFails \/ ObserveFails \/ ReserveFails \/ RelocateFails \/ PublishFails
  BY <1>8, FailIInv
<1>9. CASE Publish
  BY <1>9, PublishIInv
<1> QED BY <1>1, <1>2, <1>3, <1>4, <1>5, <1>6, <1>7, <1>8, <1>9 DEF Next, Stage

-----------------------------------------------------------------------------
(* The theorems.                                                           *)

\* IInv holds in every reachable state of the runtime.
THEOREM Invariance == Spec => []IInv
<1>1. Init => IInv
  BY InitIInv
<1>2. IInv /\ [Next]_vars => IInv'
  BY StepIInv
<1> QED BY <1>1, <1>2, PTL DEF Spec

\* The runtime's tables tell one story between any two steps of any activation:
\* types, activations, remembered edges, stage results, statistics and arena.
THEOREM TablesConsistent == Spec => []RuntimeConsistent
<1>1. IInv => RuntimeConsistent
  BY DEF IInv
<1> QED BY <1>1, Invariance, PTL

\* A gate that has left its cold path leads to its block's published code.
THEOREM GatesLeadToCode == Spec => []GateLeadsToCode
<1>1. IInv => GateLeadsToCode
  BY DEF IInv
<1> QED BY <1>1, Invariance, PTL

-----------------------------------------------------------------------------
(* Versions, artifacts and code are for good.                              *)

\* No step changes a version, an artifact or a published address.
LEMMA StepStable ==
  ASSUME IInv, Next, NEW b \in Blocks
  PROVE  /\ versions[b] # None => versions'[b] = versions[b]
         /\ artifact[b] # None => artifact'[b] = artifact[b]
         /\ code[b] # None => code'[b] = code[b] /\ destination'[b] = destination[b]
<1>1. /\ versions \in Versions
      /\ artifact \in [Blocks -> (SUBSET Blocks) \cup {None}]
      /\ code \in [Blocks -> PageIds \cup {None}]
      /\ destination \in [Blocks -> PageIds \cup {None}]
  BY DEF IInv, RuntimeConsistent, TypeOK, Versions
<1>2. versions[b] # None => versions'[b] = versions[b]
  <2>1. ASSUME NEW c \in Labels, LabelAddress(c)
        PROVE  versions[b] # None => versions'[b] = versions[b]
    BY <1>1, <2>1, RequestFacts, BlocksAssumption DEF LabelAddress
  <2>2. CASE Encode \/ EncodeFails
    <3>1. PICK c \in Blocks : c = Current /\ versions[c] # None
      BY <2>2, CurrentFacts DEF Encode, EncodeFails, At
    <3>2. versions' = versions \/ versions' = specialize(versions, c)
      BY <2>2, <3>1 DEF Encode, EncodeFails
    <3> QED BY <1>1, <3>1, <3>2, SpecializeFacts
  <2>3. ASSUME versions' # versions
        PROVE  Encode \/ EncodeFails \/ \E c \in Labels : LabelAddress(c)
    BY <2>3 DEF Next, Stage, CompileCold, CompileCompiled, CompileRecursive, EncodeKept, Observe,
                ObserveFails, ReserveKept, Reserve, ReserveFails, Relocate, RelocateFails,
                Publish, PublishFails
  <2> QED BY <2>1, <2>2, <2>3
<1>3. artifact[b] # None => artifact'[b] = artifact[b]
  <2>1. CASE Encode
    BY <1>1, <2>1 DEF Encode
  <2>2. CASE ~Encode
    <3>1. artifact' = artifact
      BY <2>2 DEF Next, Stage, LabelAddress, CompileCold, CompileCompiled, CompileRecursive,
                  EncodeKept, EncodeFails, Observe, ObserveFails, ReserveKept, Reserve,
                  ReserveFails, Relocate, RelocateFails, Publish, PublishFails
    <3> QED BY <3>1
  <2> QED BY <2>1, <2>2
<1>4. code[b] # None => code'[b] = code[b] /\ destination'[b] = destination[b]
  <2>1. CASE Publish
    <3>1. PICK c \in Blocks : c = Current /\ code[c] = None
      BY <2>1, CurrentFacts DEF Publish, At
    <3>2. /\ code' = [code EXCEPT ![c] = reservation[c]]
          /\ destination' = [destination EXCEPT ![c] = reservation[c]]
      BY <2>1, <3>1 DEF Publish
    <3> QED BY <1>1, <3>1, <3>2
  <2>2. CASE ~Publish
    <3>1. code' = code /\ destination' = destination
      BY <2>2 DEF Next, Stage, LabelAddress, CompileCold, CompileCompiled, CompileRecursive,
                  EncodeKept, Encode, EncodeFails, Observe, ObserveFails, ReserveKept, Reserve,
                  ReserveFails, Relocate, RelocateFails, PublishFails
    <3> QED BY <3>1
  <2> QED BY <2>1, <2>2
<1> QED BY <1>2, <1>3, <1>4

\* What is compiled first stays: no retry, request or reentry changes a block's
\* version, its artifact, its published address or where its gate leads.
THEOREM FirstVersionKept == Spec => FirstVersionStable
<1> DEFINE Stable ==
      \A b \in Blocks :
        /\ versions[b] # None => versions'[b] = versions[b]
        /\ artifact[b] # None => artifact'[b] = artifact[b]
        /\ code[b] # None => code'[b] = code[b] /\ destination'[b] = destination[b]
<1>1. IInv /\ [Next]_vars => [Stable]_vars
  BY StepStable
<1>2. FirstVersionStable <=> [][Stable]_vars
  BY DEF FirstVersionStable
<1> QED BY <1>1, <1>2, Invariance, PTL DEF Spec

-----------------------------------------------------------------------------
(* The refinement: an attempt links its block or leaves every link alone.  *)

Linked == {b \in Blocks : destination[b] # None}
Busy == {frames[i].block : i \in DOMAIN frames}

\* A new activation is the abstract Begin.
LEMMA BeginView ==
  ASSUME IInv, NEW b \in Blocks, CompileCold(b)
  PROVE  Linkage!Begin(b)
<1>1. /\ phase[b] = "cold"
      /\ frames' = Append(frames, [block |-> b, stage |-> "encode"])
      /\ UNCHANGED <<destination, answer>>
  BY DEF CompileCold
<1>2. TypeOK /\ [block |-> b, stage |-> "encode"] \in Frame
  BY DEF IInv, RuntimeConsistent, Frame, Stages
<1>3. /\ DOMAIN frames' = DOMAIN frames \cup {Len(frames) + 1}
      /\ Len(frames) + 1 \notin DOMAIN frames
      /\ \A i \in DOMAIN frames : frames'[i] = frames[i]
      /\ frames'[Len(frames) + 1] = [block |-> b, stage |-> "encode"]
  BY <1>1, <1>2, PushFacts
<1>4. Busy' = Busy \cup {b}
  BY <1>3 DEF Busy
<1>5. b \notin Busy
  BY <1>1 DEF Busy, IInv, RuntimeConsistent, CompilingIsActive
<1>6. b \notin Linked /\ Linked' = Linked
  BY <1>1 DEF Linked, IInv, GateLeadsToCode
<1> QED BY <1>1, <1>4, <1>5, <1>6 DEF Linkage!Begin, Linked, Busy

\* A call that returns at once finds its block linked, or busy further out.
LEMMA AnswerView ==
  ASSUME IInv, NEW b \in Blocks, CompileCompiled(b) \/ CompileRecursive(b)
  PROVE  Linkage!Reuse(b) \/ Linkage!Refuse(b)
<1>1. CASE CompileCompiled(b)
  <2>1. phase[b] = "compiled" /\ answer' = [unit |-> b, ok |-> TRUE]
        /\ UNCHANGED <<destination, frames>>
    BY <1>1 DEF CompileCompiled
  <2>2. b \in Linked /\ Linked' = Linked /\ Busy' = Busy
    BY <2>1 DEF Linked, Busy, IInv, GateLeadsToCode
  <2> QED BY <2>1, <2>2 DEF Linkage!Reuse, Linked, Busy
<1>2. CASE CompileRecursive(b)
  <2>1. phase[b] = "compiling" /\ answer' = [unit |-> b, ok |-> FALSE]
        /\ UNCHANGED <<destination, frames>>
    BY <1>2 DEF CompileRecursive
  <2>2. b \in Busy
    BY <2>1 DEF Busy, IInv, RuntimeConsistent, CompilingIsActive
  <2>3. Linked' = Linked /\ Busy' = Busy
    BY <2>1 DEF Linked, Busy
  <2> QED BY <2>1, <2>2, <2>3 DEF Linkage!Refuse, Linked, Busy
<1> QED BY <1>1, <1>2

\* What the return of an activation does to the blocks being compiled.
LEMMA ReturnBusy ==
  ASSUME IInv, Running, NEW ok \in BOOLEAN, Return(ok), NEW b \in Blocks, b = Current
  PROVE  b \in Busy /\ Busy' = Busy \ {b} /\ answer' = [unit |-> b, ok |-> ok]
<1>1. TypeOK /\ Len(frames) \in DOMAIN frames /\ b = frames[Len(frames)].block
  BY FrameFacts DEF IInv, RuntimeConsistent, Current, Top
<1>2. frames' = SubSeq(frames, 1, Len(frames) - 1)
  BY DEF Return
<1>3. /\ \A i \in DOMAIN frames' : frames'[i] = frames[i]
      /\ DOMAIN frames = DOMAIN frames' \cup {Len(frames)}
  BY <1>1, <1>2, ReturnFacts
<1>4. \A i \in DOMAIN frames' : frames'[i].block \in Blocks \ {b}
  BY ReturnStack
<1>5. answer' = [unit |-> b, ok |-> ok]
  BY ReturnStack
<1>6. b \in Busy
  BY <1>1 DEF Busy
<1>7. Busy' = Busy \ {b}
  BY <1>1, <1>3, <1>4 DEF Busy
<1> QED BY <1>5, <1>6, <1>7

\* A failing stage is the abstract Fail, publication the abstract Finish.
LEMMA ReturnView ==
  ASSUME IInv,
         \/ EncodeFails \/ ObserveFails \/ ReserveFails \/ RelocateFails \/ PublishFails
         \/ Publish
  PROVE  \E b \in Blocks : Linkage!Fail(b) \/ Linkage!Finish(b)
<1>1. CASE Publish
  <2>1. Running /\ Return(TRUE)
    BY <1>1 DEF Publish, At
  <2>2. PICK b \in Blocks : b = Current
    BY <2>1, CurrentFacts
  <2>3. b \in Busy /\ Busy' = Busy \ {b} /\ answer' = [unit |-> b, ok |-> TRUE]
    BY <2>1, <2>2, ReturnBusy
  <2>4. Linked' = Linked \cup {b}
    <3>1. reservation[b] # None
      <4>1. Len(frames) \in DOMAIN frames
        BY <2>1, FrameFacts DEF IInv, RuntimeConsistent
      <4> QED BY <1>1, <2>2, <4>1 DEF Publish, At, IInv, RuntimeConsistent, StagesStored, Current, Top
    <3>2. destination' = [destination EXCEPT ![b] = reservation[b]]
      BY <1>1, <2>2 DEF Publish
    <3>3. destination \in [Blocks -> PageIds \cup {None}]
      BY DEF IInv, RuntimeConsistent, TypeOK
    <3> QED BY <3>1, <3>2, <3>3 DEF Linked
  <2>5. Linkage!Finish(b)
    BY <2>3, <2>4 DEF Linkage!Finish, Linked, Busy
  <2> QED BY <2>5
<1>2. CASE EncodeFails \/ ObserveFails \/ ReserveFails \/ RelocateFails \/ PublishFails
  <2>1. Running /\ Return(FALSE) /\ destination' = destination
    BY <1>2 DEF EncodeFails, ObserveFails, ReserveFails, RelocateFails, PublishFails, At
  <2>2. PICK b \in Blocks : b = Current
    BY <2>1, CurrentFacts
  <2>3. b \in Busy /\ Busy' = Busy \ {b} /\ answer' = [unit |-> b, ok |-> FALSE]
    BY <2>1, <2>2, ReturnBusy
  <2>4. Linked' = Linked
    BY <2>1 DEF Linked
  <2>5. Linkage!Fail(b)
    BY <2>3, <2>4 DEF Linkage!Fail, Linked, Busy
  <2> QED BY <2>5
<1> QED BY <1>1, <1>2

\* The stages inside an attempt are invisible to the code that calls.
LEMMA StageView ==
  ASSUME IInv, EncodeKept \/ Encode \/ Observe \/ ReserveKept \/ Reserve \/ Relocate
  PROVE  UNCHANGED Linkage!vars
<1>1. Running /\ UNCHANGED <<destination, answer>>
  BY DEF EncodeKept, Encode, Observe, ReserveKept, Reserve, Relocate, At
<1>2. PICK stage \in Stages : GoTo(stage)
  BY DEF EncodeKept, Encode, Observe, ReserveKept, Reserve, Relocate, Stages
<1>3. /\ DOMAIN frames' = DOMAIN frames
      /\ \A i \in DOMAIN frames : frames'[i].block = frames[i].block
  BY <1>1, <1>2, GoToFacts DEF IInv, RuntimeConsistent
<1>4. Busy' = Busy
  BY <1>3 DEF Busy
<1>5. Linked' = Linked
  BY <1>1 DEF Linked
<1> QED BY <1>1, <1>4, <1>5 DEF Linkage!vars, Linked, Busy

\* Every step of the runtime is a step of LazyLinkage or invisible in it.
LEMMA StepView == IInv /\ [Next]_vars => [Linkage!Next]_(Linkage!vars)
<1> SUFFICES ASSUME IInv, [Next]_vars PROVE [Linkage!Next]_(Linkage!vars)
  OBVIOUS
<1>1. ASSUME UNCHANGED <<destination, frames, answer>>
      PROVE  UNCHANGED Linkage!vars
  BY <1>1 DEF Linkage!vars
<1>2. CASE UNCHANGED vars
  BY <1>1, <1>2 DEF vars
<1>3. ASSUME NEW b \in Labels, LabelAddress(b) PROVE UNCHANGED Linkage!vars
  BY <1>1, <1>3 DEF LabelAddress
<1>4. ASSUME NEW b \in Blocks, CompileCold(b) PROVE Linkage!Next
  BY <1>4, BeginView DEF Linkage!Next
<1>5. ASSUME NEW b \in Blocks, CompileCompiled(b) \/ CompileRecursive(b) PROVE Linkage!Next
  BY <1>5, AnswerView DEF Linkage!Next
<1>6. CASE EncodeKept \/ Encode \/ Observe \/ ReserveKept \/ Reserve \/ Relocate
  BY <1>6, StageView
<1>7. CASE \/ EncodeFails \/ ObserveFails \/ ReserveFails \/ RelocateFails \/ PublishFails
           \/ Publish
  BY <1>7, ReturnView DEF Linkage!Next
<1> QED BY <1>2, <1>3, <1>4, <1>5, <1>6, <1>7 DEF Next, Stage

\* Block compilation with its stages, failures and reentry implements lazy linkage.
THEOREM LinkageKept == Spec => KeepsLinkage
<1>1. Init => Linkage!Init
  <2> SUFFICES ASSUME Init PROVE Linkage!Init
    OBVIOUS
  <2>1. DOMAIN frames = {}
    BY EmptySeq DEF Init
  <2> QED BY <2>1 DEF Init, Linkage!Init, Linkage!NoAnswer
<1>2. IInv /\ [Next]_vars => [Linkage!Next]_(Linkage!vars)
  BY StepView
<1> QED BY <1>1, <1>2, Invariance, PTL DEF Spec, KeepsLinkage, Linkage!Spec
=============================================================================
