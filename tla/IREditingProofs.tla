-------------------------- MODULE IREditingProofs --------------------------
(***************************************************************************)
(* Proofs about IREditing, for every set of batches, every bound of the    *)
(* session and bodies of any size: handles resolve exactly while their     *)
(* nodes are in the body, Program::status() promises a body that verifies, *)
(* and a call that fails writes nothing.                                   *)
(*                                                                         *)
(* The first parts are about bodies: what insertions, removals and         *)
(* erasures do to sequences, to the nodes of a list of blocks, and then    *)
(* that each operation of IRFunction is Sound: the body it leaves Grows    *)
(* (it keeps its nodes, and every new one is younger) or Shrinks (what is  *)
(* gone is in the log with the revision the edit published).  The last     *)
(* parts are about the session: each call of a batch Keeps the invariant,  *)
(* one lemma per action.                                                   *)
(***************************************************************************)
EXTENDS IREditing, SequenceTheorems, InductionFacts

\* Revisions under the addresses they were erased at.
Logs == UNION {[S -> Nat] : S \in SUBSET Nat}

\* Where a batch inserts.
Positions == LiveNodes \cup {None}

\* The labels of a batch, by the address of their block.
Anchors == UNION {[S -> LiveNodes] : S \in SUBSET (Nat \ {0})}

BatchRecords ==
  [status : {"none", "open", "closed"}, error : BOOLEAN, borrowed : BOOLEAN, entry : Positions, insert : Positions,
   scope : {0, 1}, anchors : Anchors, gone : SUBSET (Nat \ {0})]

OfBody(kind, f) == UNION {OfKind(kind, f.blocks[b]) : b \in DOMAIN f.blocks}

\* A body of its type, every node in one place of it.
Good(f) == f \in Bodies(Logs) /\ Clean(f)

\* The log of erased addresses is older than what the body holds now.
LogSound(f) ==
  /\ \A a \in DOMAIN f.erased : f.erased[a] <= f.rev.i
  /\ \A n \in Nodes(f) : n.a \in DOMAIN f.erased => f.erased[n.a] < f.rev.i

\* A batch inserts at a node that was made; while it is in the body it is a block.
BatchSound(f, v) ==
  /\ v.insert.g <= f.gen
  /\ v.insert \in Nodes(f) => v.insert \in OfBody("block", f)

\* The node of a handle was made; the log has an erasure of its address since the handle was just when it is gone.
HandleSound(f, h) ==
  /\ h \in [batch : Batches, kind : Kinds, node : LiveNodes, rev : Nat]
  /\ h.node.g <= f.gen
  /\ h.rev <= f.rev.i
  /\ h.node \in Nodes(f) => h.node \in OfBody(h.kind, f)
  /\ WasErased(f, h.node.a, h.rev) <=> h.node \notin Nodes(f)

\* Erasures are logged from the first handle on (tracks); before that there is no handle to be wrong.
EditingInv ==
  /\ Good(fn)
  /\ LogSound(fn)
  /\ batch \in [Batches -> BatchRecords]
  /\ \A b \in Batches : BatchSound(fn, batch[b])
  /\ \A h \in handles : HandleSound(fn, h)
  /\ handles # {} => fn.tracks

\* The program knows every error of an open batch.
ErrorInv ==
  /\ editError \in BOOLEAN
  /\ pass \in Batches \cup {"none"}
  /\ \A b \in Batches : batch[b].status = "open" /\ batch[b].error => editError
  /\ StatusMeansVerified

-----------------------------------------------------------------------------
(* Sequences: an insertion, a removal, and what an erasure leaves. *)

InsertedAs(t, s, p, e) ==
  /\ Len(t) = Len(s) + 1
  /\ \A i \in 1..Len(t) : t[i] = IF i < p THEN s[i] ELSE IF i = p THEN e ELSE s[i - 1]

\* What an insertion is, place by place.
LEMMA InsertedAt ==
  ASSUME NEW S, NEW s \in Seq(S), NEW e \in S, NEW p \in 1..(Len(s) + 1)
  PROVE  InsertAt(s, p, e) \in Seq(S) /\ InsertedAs(InsertAt(s, p, e), s, p, e)
<1> DEFINE u == SubSeq(s, 1, p - 1)
           v == SubSeq(s, p, Len(s))
<1>1. Len(s) \in Nat /\ p \in Int /\ DOMAIN s = 1..Len(s)
  BY LenProperties
<1>2. /\ u \in Seq(S) /\ Len(u) = p - 1
      /\ \A i \in 1..(p - 1) : u[i] = s[i]
  <2>1. \A i \in 1..(p - 1) : s[i] \in S
    BY <1>1, ElementOfSeq
  <2> QED BY <1>1, <2>1, SubSeqProperties, Z3
<1>3. /\ v \in Seq(S) /\ Len(v) = Len(s) - p + 1
      /\ \A i \in 1..(Len(s) - p + 1) : v[i] = s[p + i - 1]
  <2>1. \A i \in p..Len(s) : s[i] \in S
    BY <1>1, ElementOfSeq
  <2> QED BY <1>1, <2>1, SubSeqProperties, Z3
<1> HIDE DEF u, v
<1>4. /\ <<e>> \in Seq(S) /\ Len(<<e>>) = 1 /\ <<e>>[1] = e
  OBVIOUS
<1>5. /\ u \o <<e>> \in Seq(S) /\ Len(u \o <<e>>) = p
      /\ \A i \in 1..p : (u \o <<e>>)[i] = IF i < p THEN s[i] ELSE e
  BY <1>1, <1>2, <1>4, ConcatProperties
<1> DEFINE w == u \o <<e>>
<1> HIDE DEF w
<1>6. /\ w \o v \in Seq(S) /\ Len(w \o v) = Len(s) + 1
      /\ \A i \in 1..(Len(s) + 1) : (w \o v)[i] = IF i <= p THEN w[i] ELSE v[i - p]
  <2>1. /\ w \in Seq(S) /\ Len(w) = p
    BY <1>5 DEF w
  <2>2. /\ w \o v \in Seq(S) /\ Len(w \o v) = Len(w) + Len(v)
        /\ \A i \in 1..(Len(w) + Len(v)) : (w \o v)[i] = IF i <= Len(w) THEN w[i] ELSE v[i - Len(w)]
    BY <2>1, <1>3, ConcatProperties, Zenon
  <2>3. Len(w) + Len(v) = Len(s) + 1
    BY <1>1, <2>1, <1>3
  <2> QED BY <2>1, <2>2, <2>3
<1>7. ASSUME NEW i \in 1..(Len(s) + 1)
      PROVE  (w \o v)[i] = IF i < p THEN s[i] ELSE IF i = p THEN e ELSE s[i - 1]
  <2>1. CASE i <= p
    <3>1. i \in 1..p
      BY <2>1, <1>1
    <3>2. w[i] = IF i < p THEN s[i] ELSE e
      BY <3>1, <1>5 DEF w
    <3> QED BY <2>1, <3>1, <3>2, <1>6, <1>1
  <2>2. CASE i > p
    <3>1. i - p \in 1..(Len(s) - p + 1) /\ p + (i - p) - 1 = i - 1
      BY <1>1, <2>2
    <3>2. v[i - p] = s[i - 1]
      BY <1>3, <3>1
    <3>3. ~(i <= p) /\ ~(i < p) /\ i # p
      BY <2>2, <1>1
    <3> QED BY <1>6, <3>2, <3>3
  <2>3. i <= p \/ i > p
    BY <1>1
  <2> QED BY <2>1, <2>2, <2>3
<1>8. InsertAt(s, p, e) = w \o v
  BY DEF InsertAt, w, u, v
<1> QED BY <1>6, <1>7, <1>8 DEF InsertedAs

RemovedAs(t, s, p) ==
  /\ Len(t) = Len(s) - 1
  /\ \A i \in 1..Len(t) : t[i] = IF i < p THEN s[i] ELSE s[i + 1]

\* What a removal is, place by place.
LEMMA RemovedAt ==
  ASSUME NEW S, NEW s \in Seq(S), NEW p \in 1..Len(s)
  PROVE  RemoveAt(s, p) \in Seq(S) /\ RemovedAs(RemoveAt(s, p), s, p)
<1> DEFINE u == SubSeq(s, 1, p - 1)
           v == SubSeq(s, p + 1, Len(s))
<1>1. Len(s) \in Nat /\ p \in Int /\ DOMAIN s = 1..Len(s)
  BY LenProperties
<1>2. /\ u \in Seq(S) /\ Len(u) = p - 1
      /\ \A i \in 1..(p - 1) : u[i] = s[i]
  <2>1. \A i \in 1..(p - 1) : s[i] \in S
    BY <1>1, ElementOfSeq
  <2> QED BY <1>1, <2>1, SubSeqProperties, Z3
<1>3. /\ v \in Seq(S) /\ Len(v) = Len(s) - p
      /\ \A i \in 1..(Len(s) - p) : v[i] = s[p + i]
  <2>1. \A i \in (p + 1)..Len(s) : s[i] \in S
    BY <1>1, ElementOfSeq
  <2>2. p + 1 \in Int /\ Len(s) \in Int
    BY <1>1
  <2>3. /\ v \in Seq(S) /\ Len(v) = (IF p + 1 <= Len(s) THEN Len(s) - (p + 1) + 1 ELSE 0)
        /\ \A i \in 1..(Len(s) - (p + 1) + 1) : v[i] = s[(p + 1) + i - 1]
    BY <2>1, <2>2, SubSeqProperties
  <2> HIDE DEF v
  <2>4. Len(s) - (p + 1) + 1 = Len(s) - p
    BY <1>1
  <2>5. \A i \in 1..(Len(s) - p) : (p + 1) + i - 1 = p + i
    BY <1>1
  <2>6. Len(v) = Len(s) - p
    <3>1. p <= Len(s)
      BY <1>1
    <3>2. CASE p + 1 <= Len(s)
      BY <2>3, <2>4, <3>2
    <3>3. CASE ~(p + 1 <= Len(s))
      <4>1. PICK m \in Nat : m = Len(s)
        BY <1>1
      <4>2. PICK q \in Int : q = p
        BY <1>1
      <4>3. q = m
        BY <3>1, <3>3, <4>1, <4>2
      <4> QED BY <2>3, <3>3, <4>1, <4>2, <4>3
    <3> QED BY <3>2, <3>3
  <2> QED BY <2>3, <2>4, <2>5, <2>6
<1> HIDE DEF u, v
<1>6. /\ u \o v \in Seq(S) /\ Len(u \o v) = Len(s) - 1
      /\ \A i \in 1..(Len(s) - 1) : (u \o v)[i] = IF i <= p - 1 THEN u[i] ELSE v[i - (p - 1)]
  <2>1. /\ u \o v \in Seq(S) /\ Len(u \o v) = Len(u) + Len(v)
        /\ \A i \in 1..(Len(u) + Len(v)) : (u \o v)[i] = IF i <= Len(u) THEN u[i] ELSE v[i - Len(u)]
    BY <1>2, <1>3, ConcatProperties, Zenon
  <2>2. Len(u) + Len(v) = Len(s) - 1
    BY <1>1, <1>2, <1>3
  <2> QED BY <2>1, <2>2, <1>2
<1>7. ASSUME NEW i \in 1..(Len(s) - 1)
      PROVE  (u \o v)[i] = IF i < p THEN s[i] ELSE s[i + 1]
  <2>1. CASE i < p
    <3>1. i \in 1..(p - 1) /\ i <= p - 1
      BY <2>1, <1>1
    <3> QED BY <2>1, <3>1, <1>2, <1>6
  <2>2. CASE i >= p
    <3>1. i - (p - 1) \in 1..(Len(s) - p) /\ p + (i - (p - 1)) = i + 1
      BY <1>1, <2>2
    <3>2. v[i - (p - 1)] = s[i + 1]
      BY <1>3, <3>1
    <3>3. ~(i <= p - 1) /\ ~(i < p)
      BY <2>2, <1>1
    <3> QED BY <1>6, <3>2, <3>3
  <2>3. i < p \/ i >= p
    BY <1>1
  <2> QED BY <2>1, <2>2, <2>3
<1>8. RemoveAt(s, p) = u \o v
  BY DEF RemoveAt, u, v
<1> QED BY <1>6, <1>7, <1>8 DEF RemovedAs

\* t is made of the members of s at the places I, each of them once.
Draws(t, s, I) ==
  \E w \in [1..Len(t) -> I] :
    /\ \A i, j \in 1..Len(t) : w[i] = w[j] => i = j
    /\ \A p \in I : \E i \in 1..Len(t) : w[i] = p
    /\ \A i \in 1..Len(t) : t[i] = s[w[i]]

\* One member more is drawn.
LEMMA DrawsOneMore ==
  ASSUME NEW S, NEW s, NEW t \in Seq(S), NEW I, NEW p, s[p] \in S, p \notin I, Draws(t, s, I)
  PROVE  Draws(Append(t, s[p]), s, I \cup {p})
<1>1. PICK w \in [1..Len(t) -> I] :
        /\ \A i, j \in 1..Len(t) : w[i] = w[j] => i = j
        /\ \A q \in I : \E i \in 1..Len(t) : w[i] = q
        /\ \A i \in 1..Len(t) : t[i] = s[w[i]]
  BY DEF Draws
<1>2. Len(t) \in Nat
  BY LenProperties
<1> DEFINE u == Append(t, s[p])
           v == [i \in 1..Len(u) |-> IF i <= Len(t) THEN w[i] ELSE p]
<1>3. /\ Len(u) = Len(t) + 1
      /\ \A i \in 1..Len(t) : u[i] = t[i]
      /\ u[Len(t) + 1] = s[p]
  BY AppendProperties
<1> HIDE DEF u
<1>4. \A i \in 1..Len(u) : i \in 1..Len(t) \/ i = Len(t) + 1
  BY <1>2, <1>3
<1>5. /\ \A i \in 1..Len(t) : i \in 1..Len(u) /\ v[i] = w[i]
      /\ Len(t) + 1 \in 1..Len(u) /\ v[Len(t) + 1] = p
      /\ DOMAIN v = 1..Len(u)
  BY <1>2, <1>3
<1>6. v \in [1..Len(u) -> I \cup {p}]
  <2>1. \A i \in 1..Len(u) : v[i] \in I \cup {p}
    BY <1>1, <1>4, <1>5
  <2> QED BY <2>1
<1> HIDE DEF v
<1>7. \A i, j \in 1..Len(u) : v[i] = v[j] => i = j
  BY <1>1, <1>4, <1>5
<1>8. \A q \in I \cup {p} : \E i \in 1..Len(u) : v[i] = q
  BY <1>1, <1>5
<1>9. \A i \in 1..Len(u) : u[i] = s[v[i]]
  BY <1>1, <1>3, <1>4, <1>5
<1>10. Draws(u, s, I \cup {p})
  BY <1>6, <1>7, <1>8, <1>9 DEF Draws
<1> QED BY <1>10 DEF u

\* An erasure leaves the members at the places that are kept, in their order.
LEMMA RemainingDrawn ==
  ASSUME NEW S, NEW s \in Seq(S), NEW I
  PROVE  Remaining(s, I) \in Seq(S) /\ Draws(Remaining(s, I), s, I \cap (1..Len(s)))
<1> DEFINE N == Len(s)
           Z == Seq(S)
           before == [n \in 1..N |-> n - 1]
           step == [a \in (1..N) \X Z |-> IF a[1] \in I THEN Append(a[2], s[a[1]]) ELSE a[2]]
           Defines(g) == g = [k \in 0..Len(s) |->
                                IF k = 0 THEN <<>> ELSE IF k \in I THEN Append(g[k - 1], s[k]) ELSE g[k - 1]]
           rest == CHOOSE g : Defines(g)
<1>1. N \in Nat /\ \A n \in 1..N : s[n] \in S
  BY LenProperties, ElementOfSeq
<1>2. PICK g : Solves(g, N, Z, <<>>, before, step)
  <2>1. <<>> \in Z
    BY EmptySeq
  <2>2. before \in [1..N -> Nat] /\ \A n \in 1..N : before[n] < n
    BY <1>1
  <2>3. step \in [(1..N) \X Z -> Z]
    BY <1>1, AppendProperties
  <2> HIDE DEF N, Z, before, step
  <2>4. Recursion(N, Z, <<>>, before, step)
    BY <1>1, <2>1, <2>2, <2>3 DEF Recursion
  <2> QED BY <2>4, RecursionExists
<1>3. g \in [0..N -> Z] /\ g[0] = <<>> /\ \A n \in 1..N : g[n] = step[<<n, g[n - 1]>>]
  BY <1>1, <1>2 DEF Solves
<1>4. ASSUME NEW n \in 1..N
      PROVE  g[n] = IF n \in I THEN Append(g[n - 1], s[n]) ELSE g[n - 1]
  <2>1. n - 1 \in 0..N
    BY <1>1
  <2>2. g[n - 1] \in Z
    BY <1>3, <2>1
  <2> HIDE DEF Z
  <2> QED BY <1>3, <2>2
<1>5. Defines(g)
  <2>1. \A k \in 0..N : k = 0 \/ k \in 1..N
    BY <1>1
  <2> QED BY <1>3, <1>4, <2>1
<1>6. Defines(rest)
  <2> HIDE DEF Defines
  <2> QED BY <1>5
<1>7. ASSUME NEW f, Defines(f)
      PROVE  f[0] = <<>> /\ \A n \in 1..N : f[n] = IF n \in I THEN Append(f[n - 1], s[n]) ELSE f[n - 1]
  <2>1. \A k \in 0..N : f[k] = IF k = 0 THEN <<>> ELSE IF k \in I THEN Append(f[k - 1], s[k]) ELSE f[k - 1]
    BY <1>7, Zenon
  <2> HIDE DEF Defines
  <2> QED BY <1>1, <2>1
<1>8. rest[0] = <<>> /\ \A n \in 1..N : rest[n] = IF n \in I THEN Append(rest[n - 1], s[n]) ELSE rest[n - 1]
  <2> HIDE DEF Defines, rest
  <2> QED BY <1>6, <1>7
<1>9. Remaining(s, I) = rest[N]
  BY DEF Remaining
<1> HIDE DEF rest, Defines
<1> DEFINE P == {n \in 0..N : rest[n] \in Seq(S) /\ Draws(rest[n], s, I \cap (1..n))}
<1>10. 0 \in P
  <2>1. Draws(<<>>, s, {})
    <3>1. [i \in 1..Len(<<>>) |-> i] \in [1..Len(<<>>) -> {}]
      OBVIOUS
    <3> QED BY <3>1 DEF Draws
  <2>2. I \cap (1..0) = {}
    OBVIOUS
  <2>3. rest[0] \in Seq(S) /\ Draws(rest[0], s, I \cap (1..0))
    BY <1>8, <2>1, <2>2, EmptySeq
  <2> QED BY <1>1, <2>3
<1>11. ASSUME NEW n \in 0..(N - 1), n \in P
       PROVE  n + 1 \in P
  <2>1. n + 1 \in 1..N /\ (n + 1) - 1 = n
    BY <1>1
  <2>2. rest[n] \in Seq(S) /\ Draws(rest[n], s, I \cap (1..n)) /\ s[n + 1] \in S
    BY <1>1, <1>11, <2>1
  <2>3. CASE n + 1 \in I
    <3>1. rest[n + 1] = Append(rest[n], s[n + 1])
      BY <1>8, <2>1, <2>3
    <3>2. n + 1 \notin I \cap (1..n) /\ (I \cap (1..n)) \cup {n + 1} = I \cap (1..(n + 1))
      BY <2>1, <2>3
    <3>3. Draws(Append(rest[n], s[n + 1]), s, (I \cap (1..n)) \cup {n + 1})
      BY <2>2, <3>2, DrawsOneMore
    <3>4. Append(rest[n], s[n + 1]) \in Seq(S)
      BY <2>2, AppendProperties
    <3>5. rest[n + 1] \in Seq(S) /\ Draws(rest[n + 1], s, I \cap (1..(n + 1)))
      BY <3>1, <3>2, <3>3, <3>4
    <3>6. n + 1 \in 0..N
      BY <1>1
    <3> QED BY <3>5, <3>6
  <2>4. CASE n + 1 \notin I
    <3>1. rest[n + 1] = rest[n]
      BY <1>8, <2>1, <2>4
    <3>2. I \cap (1..n) = I \cap (1..(n + 1))
      BY <2>1, <2>4
    <3>3. rest[n + 1] \in Seq(S) /\ Draws(rest[n + 1], s, I \cap (1..(n + 1)))
      BY <2>2, <3>1, <3>2
    <3>4. n + 1 \in 0..N
      BY <1>1
    <3> QED BY <3>3, <3>4
  <2> QED BY <2>3, <2>4
<1>12. N \in P
  <2>1. \A n \in 0..(N - 1) : n \in P => n + 1 \in P
    BY <1>11
  <2> HIDE DEF P, N
  <2>2. 0..N \subseteq P
    BY <1>1, <1>10, <2>1, CountsUp
  <2> QED BY <1>1, <2>2
<1> QED BY <1>9, <1>12

-----------------------------------------------------------------------------
(* The nodes of a sequence of blocks. *)

CleanBlocks(s) ==
  /\ \A b \in DOMAIN s : CleanBlock(s[b])
  /\ \A b, c \in DOMAIN s : b # c => NodesIn(s[b]) \cap NodesIn(s[c]) = {}

OfSeq(kind, s) == UNION {OfKind(kind, s[b]) : b \in DOMAIN s}

NodesSeq(s) == UNION {NodesIn(s[b]) : b \in DOMAIN s}

\* A node of a block is the block, one of its labels or one of its instructions.
LEMMA KindsOfBlock ==
  ASSUME NEW blk
  PROVE  /\ \A k \in Kinds : OfKind(k, blk) \subseteq NodesIn(blk)
         /\ \A n \in NodesIn(blk) : \E k \in Kinds : n \in OfKind(k, blk)
<1>1. OfKind("block", blk) = {blk.n} /\ OfKind("label", blk) = Range(blk.labels)
      /\ OfKind("ins", blk) = {i.n : i \in Range(blk.ins)}
  BY DEF OfKind
<1>2. NodesIn(blk) = OfKind("block", blk) \cup OfKind("label", blk) \cup OfKind("ins", blk)
  BY <1>1 DEF NodesIn
<1> QED BY <1>2 DEF Kinds

\* So is one of a list of blocks.
LEMMA KindsOfSeq ==
  ASSUME NEW s
  PROVE  /\ \A k \in Kinds : OfSeq(k, s) \subseteq NodesSeq(s)
         /\ \A n \in NodesSeq(s) : \E k \in Kinds : n \in OfSeq(k, s)
<1>1. \A k \in Kinds : OfSeq(k, s) \subseteq NodesSeq(s)
  BY KindsOfBlock DEF OfSeq, NodesSeq
<1>2. ASSUME NEW n \in NodesSeq(s)
      PROVE  \E k \in Kinds : n \in OfSeq(k, s)
  <2>1. PICK b \in DOMAIN s : n \in NodesIn(s[b])
    BY <1>2 DEF NodesSeq
  <2>2. PICK k \in Kinds : n \in OfKind(k, s[b])
    BY <2>1, KindsOfBlock
  <2> QED BY <2>1, <2>2 DEF OfSeq
<1> QED BY <1>1, <1>2

\* No node is of two kinds.
LEMMA OneKind ==
  ASSUME NEW s, CleanBlocks(s), NEW n, NEW k \in Kinds, NEW l \in Kinds, n \in OfSeq(k, s), n \in OfSeq(l, s)
  PROVE  k = l
<1>1. PICK b \in DOMAIN s : n \in OfKind(k, s[b])
  BY DEF OfSeq
<1>2. PICK c \in DOMAIN s : n \in OfKind(l, s[c])
  BY DEF OfSeq
<1>3. n \in NodesIn(s[b]) /\ n \in NodesIn(s[c])
  BY <1>1, <1>2, KindsOfBlock
<1>4. b = c
  BY <1>3 DEF CleanBlocks
<1> QED BY <1>1, <1>2, <1>4 DEF CleanBlocks, CleanBlock

\* Nodes of typed blocks are live nodes.
LEMMA BlockNodes ==
  ASSUME NEW blk \in BodyBlocks
  PROVE  /\ NodesIn(blk) \subseteq LiveNodes
         /\ IsFiniteSet(NodesIn(blk))
<1> DEFINE L == Len(blk.labels)
           I == Len(blk.ins)
           A == Range(blk.labels)
           B == {i.n : i \in Range(blk.ins)}
<1>1. /\ blk.n \in LiveNodes
      /\ blk.labels \in [1..L -> LiveNodes] /\ L \in Nat
      /\ blk.ins \in [1..I -> Instructions] /\ I \in Nat
  BY LenProperties DEF BodyBlocks
<1>2. A \subseteq LiveNodes
  BY <1>1 DEF Range
<1>3. B \subseteq LiveNodes
  BY <1>1 DEF Range, Instructions
<1>4. IsFiniteSet(A)
  <2>1. blk.labels \in Surjection(1..L, A)
    BY <1>1 DEF Surjection, Range
  <2>2. ExistsSurjection(1..L, A)
    BY <2>1 DEF ExistsSurjection
  <2> HIDE DEF A, L
  <2> QED BY <1>1, <2>2, FS_NatSurjection
<1>5. IsFiniteSet(B)
  <2>1. [i \in 1..I |-> blk.ins[i].n] \in Surjection(1..I, B)
    BY <1>1 DEF Surjection, Range
  <2>2. ExistsSurjection(1..I, B)
    BY <2>1 DEF ExistsSurjection
  <2> HIDE DEF B, I
  <2> QED BY <1>1, <2>2, FS_NatSurjection
<1>6. IsFiniteSet({blk.n})
  BY FS_Singleton
<1>7. NodesIn(blk) = ({blk.n} \cup A) \cup B
  BY DEF NodesIn
<1> HIDE DEF A, B
<1> QED BY <1>1, <1>2, <1>3, <1>4, <1>5, <1>6, <1>7, FS_Union

\* The nodes of a list of blocks are live, and finitely many.
LEMMA SeqNodes ==
  ASSUME NEW s \in Seq(BodyBlocks)
  PROVE  /\ NodesSeq(s) \subseteq LiveNodes
         /\ IsFiniteSet(NodesSeq(s))
<1> DEFINE N == Len(s)
           F == {NodesIn(s[b]) : b \in 1..N}
<1>1. N \in Nat /\ DOMAIN s = 1..N /\ \A b \in 1..N : s[b] \in BodyBlocks
  BY LenProperties, ElementOfSeq
<1>2. IsFiniteSet(F)
  <2>1. [b \in 1..N |-> NodesIn(s[b])] \in Surjection(1..N, F)
    BY DEF Surjection
  <2>2. ExistsSurjection(1..N, F)
    BY <2>1 DEF ExistsSurjection
  <2> HIDE DEF F, N
  <2> QED BY <1>1, <2>2, FS_NatSurjection
<1>3. \A T \in F : IsFiniteSet(T) /\ T \subseteq LiveNodes
  BY <1>1, BlockNodes
<1>4. NodesSeq(s) = UNION F
  BY <1>1 DEF NodesSeq
<1> HIDE DEF F
<1> QED BY <1>2, <1>3, <1>4, FS_UNION

-----------------------------------------------------------------------------
(* What an edit does to the blocks. *)

Replaced(t, s, b, y) ==
  /\ t \in Seq(BodyBlocks) /\ CleanBlocks(t) /\ Len(t) = Len(s) /\ DOMAIN t = DOMAIN s
  /\ t[b] = y
  /\ \A c \in DOMAIN s : c # b => t[c] = s[c]
  /\ \A k \in Kinds : OfSeq(k, t) = (OfSeq(k, s) \ OfKind(k, s[b])) \cup OfKind(k, y)

\* A block whose nodes are its old ones or new ones takes the place of the old.
LEMMA BlockReplaced ==
  ASSUME NEW s \in Seq(BodyBlocks), CleanBlocks(s), NEW b \in DOMAIN s,
         NEW y \in BodyBlocks, CleanBlock(y),
         NEW X, NodesIn(y) \subseteq NodesIn(s[b]) \cup X, X \cap NodesSeq(s) = {}
  PROVE  Replaced([s EXCEPT ![b] = y], s, b, y)
<1> DEFINE t == [s EXCEPT ![b] = y]
<1>1. Len(s) \in Nat /\ DOMAIN s = 1..Len(s)
  BY LenProperties
<1>2. /\ t \in Seq(BodyBlocks) /\ Len(t) = Len(s) /\ DOMAIN t = DOMAIN s
      /\ t[b] = y
      /\ \A c \in DOMAIN s : c # b => t[c] = s[c]
  <2>1. b \in 1..Len(s)
    BY <1>1
  <2> QED BY <1>1, <2>1, ExceptSeq, LenProperties
<1> HIDE DEF t
<1>3. ASSUME NEW c \in DOMAIN s, c # b
      PROVE  NodesIn(y) \cap NodesIn(s[c]) = {}
  <2>1. NodesIn(s[b]) \cap NodesIn(s[c]) = {}
    BY <1>3 DEF CleanBlocks
  <2>2. X \cap NodesIn(s[c]) = {}
    BY DEF NodesSeq
  <2> QED BY <2>1, <2>2
<1>4. CleanBlocks(t)
  <2>1. \A c \in DOMAIN t : CleanBlock(t[c])
    BY <1>2 DEF CleanBlocks
  <2>2. ASSUME NEW c \in DOMAIN t, NEW d \in DOMAIN t, c # d
        PROVE  NodesIn(t[c]) \cap NodesIn(t[d]) = {}
    <3>1. CASE c = b
      BY <1>2, <1>3, <2>2, <3>1
    <3>2. CASE d = b
      BY <1>2, <1>3, <2>2, <3>2
    <3>3. CASE c # b /\ d # b
      BY <1>2, <2>2, <3>3 DEF CleanBlocks
    <3> QED BY <3>1, <3>2, <3>3
  <2> QED BY <2>1, <2>2 DEF CleanBlocks
<1>5. ASSUME NEW k \in Kinds
      PROVE  OfSeq(k, t) = (OfSeq(k, s) \ OfKind(k, s[b])) \cup OfKind(k, y)
  <2>1. ASSUME NEW n \in OfSeq(k, t)
        PROVE  n \in (OfSeq(k, s) \ OfKind(k, s[b])) \cup OfKind(k, y)
    <3>1. PICK c \in DOMAIN t : n \in OfKind(k, t[c])
      BY <2>1 DEF OfSeq
    <3>2. CASE c = b
      BY <1>2, <3>1, <3>2
    <3>3. CASE c # b
      <4>1. t[c] = s[c] /\ c \in DOMAIN s
        BY <1>2, <3>3
      <4>2. n \in OfSeq(k, s)
        BY <3>1, <4>1 DEF OfSeq
      <4>3. n \in NodesIn(s[c])
        BY <3>1, <4>1, KindsOfBlock
      <4>4. n \notin NodesIn(s[b])
        BY <3>3, <4>1, <4>3 DEF CleanBlocks
      <4>5. n \notin OfKind(k, s[b])
        BY <4>4, KindsOfBlock
      <4> QED BY <4>2, <4>5
    <3> QED BY <3>2, <3>3
  <2>2. ASSUME NEW n \in OfSeq(k, s), n \notin OfKind(k, s[b])
        PROVE  n \in OfSeq(k, t)
    <3>1. PICK c \in DOMAIN s : n \in OfKind(k, s[c])
      BY <2>2 DEF OfSeq
    <3>2. c # b
      BY <2>2, <3>1
    <3> QED BY <1>2, <3>1, <3>2 DEF OfSeq
  <2>3. ASSUME NEW n \in OfKind(k, y)
        PROVE  n \in OfSeq(k, t)
    BY <1>2, <2>3 DEF OfSeq
  <2> QED BY <2>1, <2>2, <2>3
<1>6. Replaced(t, s, b, y)
  BY <1>2, <1>4, <1>5 DEF Replaced
<1> QED BY <1>6 DEF t

\* Blocks drawn from a clean sequence are clean, and hold what they held.
LEMMA BlocksDrawn ==
  ASSUME NEW s \in Seq(BodyBlocks), CleanBlocks(s), NEW t \in Seq(BodyBlocks),
         NEW I \in SUBSET DOMAIN s, Draws(t, s, I)
  PROVE  /\ CleanBlocks(t)
         /\ \A k \in Kinds : OfSeq(k, t) = UNION {OfKind(k, s[c]) : c \in I}
<1>1. PICK w \in [1..Len(t) -> I] :
        /\ \A i, j \in 1..Len(t) : w[i] = w[j] => i = j
        /\ \A p \in I : \E i \in 1..Len(t) : w[i] = p
        /\ \A i \in 1..Len(t) : t[i] = s[w[i]]
  BY DEF Draws
<1>2. DOMAIN t = 1..Len(t)
  BY LenProperties
<1>3. CleanBlocks(t)
  <2>1. \A c \in DOMAIN t : CleanBlock(t[c])
    BY <1>1, <1>2 DEF CleanBlocks
  <2>2. ASSUME NEW c \in DOMAIN t, NEW d \in DOMAIN t, c # d
        PROVE  NodesIn(t[c]) \cap NodesIn(t[d]) = {}
    <3>1. w[c] \in DOMAIN s /\ w[d] \in DOMAIN s /\ w[c] # w[d]
      BY <1>1, <1>2, <2>2
    <3>2. t[c] = s[w[c]] /\ t[d] = s[w[d]]
      BY <1>1, <1>2
    <3> QED BY <3>1, <3>2 DEF CleanBlocks
  <2> QED BY <2>1, <2>2 DEF CleanBlocks
<1>4. ASSUME NEW k \in Kinds
      PROVE  OfSeq(k, t) = UNION {OfKind(k, s[c]) : c \in I}
  <2>1. ASSUME NEW n \in OfSeq(k, t)
        PROVE  \E c \in I : n \in OfKind(k, s[c])
    <3>1. PICK i \in 1..Len(t) : n \in OfKind(k, t[i])
      BY <1>2, <2>1 DEF OfSeq
    <3> QED BY <1>1, <3>1
  <2>2. ASSUME NEW c \in I, NEW n \in OfKind(k, s[c])
        PROVE  n \in OfSeq(k, t)
    <3>1. PICK i \in 1..Len(t) : w[i] = c
      BY <1>1
    <3>2. t[i] = s[c] /\ i \in DOMAIN t
      BY <1>1, <1>2, <3>1
    <3> QED BY <2>2, <3>2 DEF OfSeq
  <2> QED BY <2>1, <2>2
<1> QED BY <1>3, <1>4

\* A new block at the end of a clean sequence.
LEMMA BlockAppended ==
  ASSUME NEW s \in Seq(BodyBlocks), CleanBlocks(s), NEW y \in BodyBlocks, CleanBlock(y),
         NodesIn(y) \cap NodesSeq(s) = {}
  PROVE  /\ Append(s, y) \in Seq(BodyBlocks)
         /\ CleanBlocks(Append(s, y))
         /\ \A k \in Kinds : OfSeq(k, Append(s, y)) = OfSeq(k, s) \cup OfKind(k, y)
<1> DEFINE t == Append(s, y)
<1>1. Len(s) \in Nat /\ DOMAIN s = 1..Len(s)
  BY LenProperties
<1>2. /\ t \in Seq(BodyBlocks) /\ DOMAIN t = 1..(Len(s) + 1)
      /\ t[Len(s) + 1] = y
      /\ \A c \in DOMAIN s : t[c] = s[c]
  BY <1>1, AppendProperties, LenProperties
<1> HIDE DEF t
<1>3. \A c \in DOMAIN t : c \in DOMAIN s \/ c = Len(s) + 1
  BY <1>1, <1>2
<1>4. \A c \in DOMAIN s : c \in DOMAIN t /\ NodesIn(y) \cap NodesIn(s[c]) = {}
  BY <1>1, <1>2 DEF NodesSeq
<1>5. CleanBlocks(t)
  <2>1. \A c \in DOMAIN t : CleanBlock(t[c])
    BY <1>2, <1>3 DEF CleanBlocks
  <2>2. ASSUME NEW c \in DOMAIN t, NEW d \in DOMAIN t, c # d
        PROVE  NodesIn(t[c]) \cap NodesIn(t[d]) = {}
    <3>1. CASE c \in DOMAIN s /\ d \in DOMAIN s
      BY <1>2, <2>2, <3>1 DEF CleanBlocks
    <3>2. CASE c \notin DOMAIN s
      BY <1>2, <1>3, <1>4, <2>2, <3>2
    <3>3. CASE d \notin DOMAIN s
      BY <1>2, <1>3, <1>4, <2>2, <3>3
    <3> QED BY <3>1, <3>2, <3>3
  <2> QED BY <2>1, <2>2 DEF CleanBlocks
<1>6. Len(s) + 1 \in DOMAIN t
  BY <1>1, <1>2
<1>7. ASSUME NEW k \in Kinds
      PROVE  OfSeq(k, t) = OfSeq(k, s) \cup OfKind(k, y)
  BY <1>2, <1>3, <1>4, <1>6 DEF OfSeq
<1> QED BY <1>2, <1>5, <1>7 DEF t

-----------------------------------------------------------------------------
(* What an edit does to the instructions or the labels of a block. *)

InsNodes(s) == {i.n : i \in Range(s)}

Distinct(s) == \A i, j \in DOMAIN s : s[i].n = s[j].n => i = j

\* A block with one instruction more.
LEMMA InstructionInserted ==
  ASSUME NEW s \in Seq(Instructions), Distinct(s), NEW p \in 1..(Len(s) + 1),
         NEW e \in Instructions, e.n \notin InsNodes(s)
  PROVE  /\ InsertAt(s, p, e) \in Seq(Instructions)
         /\ Distinct(InsertAt(s, p, e))
         /\ InsNodes(InsertAt(s, p, e)) = InsNodes(s) \cup {e.n}
<1> DEFINE t == InsertAt(s, p, e)
<1>1. Len(s) \in Nat /\ DOMAIN s = 1..Len(s) /\ p \in Int
  BY LenProperties
<1>2. t \in Seq(Instructions) /\ InsertedAs(t, s, p, e)
  BY InsertedAt
<1> HIDE DEF t
<1>3. DOMAIN t = 1..(Len(s) + 1)
  BY <1>2, LenProperties DEF InsertedAs
<1>4. \A i \in 1..(Len(s) + 1) :
        \/ i = p /\ t[i] = e
        \/ i < p /\ i \in DOMAIN s /\ t[i] = s[i]
        \/ i > p /\ i - 1 \in DOMAIN s /\ t[i] = s[i - 1]
  BY <1>1, <1>2 DEF InsertedAs
<1>5. \A j \in DOMAIN s : e.n # s[j].n
  BY DEF InsNodes, Range
<1>6. ASSUME NEW i \in 1..(Len(s) + 1), i # p
       PROVE  \E a \in DOMAIN s : t[i] = s[a] /\ (i < p => a = i) /\ (i > p => a = i - 1)
  <2>1. i \in Int
    BY <1>1
  <2> QED BY <1>1, <1>4, <1>6, <2>1
<1>7. Distinct(t)
  <2> SUFFICES ASSUME NEW i \in 1..(Len(s) + 1), NEW j \in 1..(Len(s) + 1), t[i].n = t[j].n
               PROVE  i = j
    BY <1>3 DEF Distinct
  <2>1. i \in Int /\ j \in Int
    BY <1>1
  <2>2. CASE i = p
    BY <1>4, <1>5, <2>1, <2>2, <1>1
  <2>3. CASE j = p
    BY <1>4, <1>5, <2>1, <2>3, <1>1
  <2>4. CASE i # p /\ j # p
    <3>1. PICK a \in DOMAIN s : t[i] = s[a] /\ (i < p => a = i) /\ (i > p => a = i - 1)
      BY <1>6, <2>4
    <3>2. PICK c \in DOMAIN s : t[j] = s[c] /\ (j < p => c = j) /\ (j > p => c = j - 1)
      BY <1>6, <2>4
    <3>3. a = c
      BY <3>1, <3>2 DEF Distinct
    <3> QED BY <1>1, <2>1, <2>4, <3>1, <3>2, <3>3
  <2> QED BY <2>2, <2>3, <2>4
<1>8. InsNodes(t) = InsNodes(s) \cup {e.n}
  <2>1. ASSUME NEW n \in InsNodes(t) PROVE n \in InsNodes(s) \cup {e.n}
    BY <1>3, <1>4, <2>1 DEF InsNodes, Range
  <2>2. e.n \in InsNodes(t)
    <3>1. p \in DOMAIN t /\ t[p] = e
      BY <1>1, <1>2, <1>3 DEF InsertedAs
    <3> QED BY <3>1 DEF InsNodes, Range
  <2>3. ASSUME NEW n \in InsNodes(s) PROVE n \in InsNodes(t)
    <3>1. PICK j \in DOMAIN s : n = s[j].n
      BY <2>3 DEF InsNodes, Range
    <3>2. CASE j < p
      <4>1. j \in DOMAIN t /\ t[j] = s[j]
        BY <1>1, <1>2, <1>3, <3>2 DEF InsertedAs
      <4> QED BY <3>1, <4>1 DEF InsNodes, Range
    <3>3. CASE j >= p
      <4>1. j + 1 \in DOMAIN t /\ t[j + 1] = s[j]
        BY <1>1, <1>2, <1>3, <3>3 DEF InsertedAs
      <4> QED BY <3>1, <4>1 DEF InsNodes, Range
    <3>4. j \in Int
      BY <1>1
    <3> QED BY <1>1, <3>2, <3>3, <3>4
  <2> QED BY <2>1, <2>2, <2>3
<1> QED BY <1>2, <1>7, <1>8 DEF t

\* A block with one instruction less.
LEMMA InstructionRemoved ==
  ASSUME NEW s \in Seq(Instructions), Distinct(s), NEW p \in 1..Len(s)
  PROVE  /\ RemoveAt(s, p) \in Seq(Instructions)
         /\ Distinct(RemoveAt(s, p))
         /\ InsNodes(RemoveAt(s, p)) = InsNodes(s) \ {s[p].n}
<1> DEFINE t == RemoveAt(s, p)
<1>1. Len(s) \in Nat /\ DOMAIN s = 1..Len(s) /\ p \in Int /\ p \in DOMAIN s
  BY LenProperties
<1>2. t \in Seq(Instructions) /\ RemovedAs(t, s, p)
  BY RemovedAt
<1> HIDE DEF t
<1>3. DOMAIN t = 1..(Len(s) - 1)
  BY <1>2, LenProperties DEF RemovedAs
<1>4. \A i \in 1..(Len(s) - 1) :
        \/ i < p /\ i \in DOMAIN s /\ t[i] = s[i]
        \/ i >= p /\ i + 1 \in DOMAIN s /\ t[i] = s[i + 1]
  BY <1>1, <1>2 DEF RemovedAs
<1>6. Distinct(t)
  <2> SUFFICES ASSUME NEW i \in 1..(Len(s) - 1), NEW j \in 1..(Len(s) - 1), t[i].n = t[j].n
               PROVE  i = j
    BY <1>3 DEF Distinct
  <2>1. i \in Int /\ j \in Int
    BY <1>1
  <2>2. PICK a \in DOMAIN s : t[i] = s[a] /\ (i < p => a = i) /\ (i >= p => a = i + 1)
    BY <1>4
  <2>3. PICK c \in DOMAIN s : t[j] = s[c] /\ (j < p => c = j) /\ (j >= p => c = j + 1)
    BY <1>4
  <2>4. a = c
    BY <2>2, <2>3 DEF Distinct
  <2> QED BY <1>1, <2>1, <2>2, <2>3, <2>4
<1>7. InsNodes(t) = InsNodes(s) \ {s[p].n}
  <2>1. ASSUME NEW n \in InsNodes(t) PROVE n \in InsNodes(s) \ {s[p].n}
    <3>1. PICK i \in 1..(Len(s) - 1) : n = t[i].n
      BY <1>3, <2>1 DEF InsNodes, Range
    <3>2. PICK j \in DOMAIN s : j # p /\ t[i] = s[j]
      BY <1>1, <1>4
    <3>3. s[j].n # s[p].n
      BY <1>1, <3>2 DEF Distinct
    <3> QED BY <3>1, <3>2, <3>3 DEF InsNodes, Range
  <2>3. ASSUME NEW n \in InsNodes(s), n # s[p].n PROVE n \in InsNodes(t)
    <3>1. PICK j \in DOMAIN s : n = s[j].n
      BY <2>3 DEF InsNodes, Range
    <3>2. CASE j < p
      <4>1. j \in DOMAIN t /\ t[j] = s[j]
        BY <1>1, <1>2, <1>3, <3>2 DEF RemovedAs
      <4> QED BY <3>1, <4>1 DEF InsNodes, Range
    <3>3. CASE j > p
      <4>1. j - 1 \in DOMAIN t /\ t[j - 1] = s[j]
        BY <1>1, <1>2, <1>3, <3>3 DEF RemovedAs
      <4> QED BY <3>1, <4>1 DEF InsNodes, Range
    <3>4. j \in Int /\ j # p
      BY <1>1, <2>3, <3>1
    <3> QED BY <1>1, <3>2, <3>3, <3>4
  <2> QED BY <2>1, <2>3
<1> QED BY <1>2, <1>6, <1>7 DEF t

\* A block with other instructions.
LEMMA WithInstructions ==
  ASSUME NEW blk \in BodyBlocks, CleanBlock(blk), NEW t \in Seq(Instructions), Distinct(t),
         InsNodes(t) \cap (OfKind("block", blk) \cup OfKind("label", blk)) = {}
  PROVE  LET y == [blk EXCEPT !.ins = t]
         IN  /\ y \in BodyBlocks /\ CleanBlock(y)
             /\ OfKind("ins", y) = InsNodes(t)
             /\ \A k \in Kinds : k # "ins" => OfKind(k, y) = OfKind(k, blk)
             /\ NodesIn(y) = OfKind("block", blk) \cup OfKind("label", blk) \cup InsNodes(t)
<1> DEFINE y == [blk EXCEPT !.ins = t]
<1>1. y \in BodyBlocks /\ y.ins = t /\ y.n = blk.n /\ y.labels = blk.labels
  BY DEF BodyBlocks
<1> HIDE DEF y
<1>2. OfKind("ins", y) = InsNodes(t)
  BY <1>1 DEF OfKind, InsNodes
<1>3. OfKind("block", y) = OfKind("block", blk) /\ OfKind("label", y) = OfKind("label", blk)
  BY <1>1 DEF OfKind
<1>4. \A k \in Kinds : k # "ins" => OfKind(k, y) = OfKind(k, blk)
  BY <1>3 DEF Kinds
<1>5. CleanBlock(y)
  <2>1. \A i, j \in DOMAIN y.labels : y.labels[i] = y.labels[j] => i = j
    BY <1>1 DEF CleanBlock
  <2>2. \A i, j \in DOMAIN y.ins : y.ins[i].n = y.ins[j].n => i = j
    BY <1>1 DEF Distinct
  <2>3. OfKind("block", blk) \cap OfKind("label", blk) = {}
    BY DEF CleanBlock, Kinds
  <2>4. \A k, l \in Kinds : k # l => OfKind(k, y) \cap OfKind(l, y) = {}
    BY <1>2, <1>3, <2>3 DEF Kinds
  <2> QED BY <2>1, <2>2, <2>4 DEF CleanBlock
<1>6. NodesIn(y) = OfKind("block", blk) \cup OfKind("label", blk) \cup InsNodes(t)
  BY <1>1 DEF NodesIn, OfKind, InsNodes
<1> QED BY <1>1, <1>2, <1>4, <1>5, <1>6 DEF y

\* A block with other labels.
LEMMA WithLabels ==
  ASSUME NEW blk \in BodyBlocks, CleanBlock(blk), NEW t \in Seq(LiveNodes),
         \A i, j \in DOMAIN t : t[i] = t[j] => i = j,
         Range(t) \cap (OfKind("block", blk) \cup OfKind("ins", blk)) = {}
  PROVE  LET y == [blk EXCEPT !.labels = t]
         IN  /\ y \in BodyBlocks /\ CleanBlock(y)
             /\ OfKind("label", y) = Range(t)
             /\ \A k \in Kinds : k # "label" => OfKind(k, y) = OfKind(k, blk)
             /\ NodesIn(y) = OfKind("block", blk) \cup Range(t) \cup OfKind("ins", blk)
<1> DEFINE y == [blk EXCEPT !.labels = t]
<1>1. y \in BodyBlocks /\ y.labels = t /\ y.n = blk.n /\ y.ins = blk.ins
  BY DEF BodyBlocks
<1> HIDE DEF y
<1>2. OfKind("label", y) = Range(t)
  BY <1>1 DEF OfKind
<1>3. OfKind("block", y) = OfKind("block", blk) /\ OfKind("ins", y) = OfKind("ins", blk)
  BY <1>1 DEF OfKind
<1>4. \A k \in Kinds : k # "label" => OfKind(k, y) = OfKind(k, blk)
  BY <1>3 DEF Kinds
<1>5. CleanBlock(y)
  <2>1. \A i, j \in DOMAIN y.labels : y.labels[i] = y.labels[j] => i = j
    BY <1>1
  <2>2. \A i, j \in DOMAIN y.ins : y.ins[i].n = y.ins[j].n => i = j
    BY <1>1 DEF CleanBlock
  <2>3. OfKind("block", blk) \cap OfKind("ins", blk) = {}
    BY DEF CleanBlock, Kinds
  <2>4. \A k, l \in Kinds : k # l => OfKind(k, y) \cap OfKind(l, y) = {}
    BY <1>2, <1>3, <2>3 DEF Kinds
  <2> QED BY <2>1, <2>2, <2>4 DEF CleanBlock
<1>6. NodesIn(y) = OfKind("block", blk) \cup Range(t) \cup OfKind("ins", blk)
  BY <1>1 DEF NodesIn, OfKind
<1> QED BY <1>1, <1>2, <1>4, <1>5, <1>6 DEF y

-----------------------------------------------------------------------------
(* New nodes. *)

\* A set of numbers up to N has a smallest one.
LEMMA Smallest ==
  ASSUME NEW N \in Nat, NEW T \in SUBSET (1..N), T # {}
  PROVE  Min(T) \in T
<1>1. \E x \in T : \A y \in T : x <= y
  <2> SUFFICES ASSUME \A x \in T : \E y \in T : ~(x <= y)
               PROVE  FALSE
    OBVIOUS
  <2> DEFINE P == {n \in 0..N : \A y \in T : n < y}
  <2>1. 0 \in P
    OBVIOUS
  <2>2. ASSUME NEW n \in 0..(N - 1), n \in P
        PROVE  n + 1 \in P
    <3>1. \A y \in T : n + 1 <= y
      BY <2>2
    <3>2. n + 1 \notin T
      BY <3>1
    <3>3. \A y \in T : n + 1 < y
      BY <3>1, <3>2
    <3>4. n + 1 \in 0..N
      OBVIOUS
    <3> QED BY <3>3, <3>4
  <2>3. \A n \in 0..(N - 1) : n \in P => n + 1 \in P
    BY <2>2
  <2> HIDE DEF P
  <2>4. 0..N \subseteq P
    BY <2>1, <2>3, CountsUp
  <2>5. N \in P
    BY <2>4
  <2>6. PICK y \in T : y \in 1..N
    OBVIOUS
  <2>7. N < y
    BY <2>5, <2>6 DEF P
  <2> QED BY <2>6, <2>7
<1> QED BY <1>1 DEF Min

\* The nodes of a body are those of its blocks.
LEMMA BodyNodes ==
  ASSUME NEW f
  PROVE  /\ Nodes(f) = NodesSeq(f.blocks)
         /\ \A k : OfBody(k, f) = OfSeq(k, f.blocks)
  BY DEF Nodes, NodesSeq, OfBody, OfSeq

\* A new node has an address no node of the body has, and is younger than all.
LEMMA NewNodeFresh ==
  ASSUME NEW f, Good(f)
  PROVE  /\ NewNode(f) \in LiveNodes
         /\ NewNode(f).g = f.gen + 1
         /\ \A n \in Nodes(f) : n.a # NewNode(f).a
         /\ NewNode(f) \notin Nodes(f)
<1> DEFINE K == Nodes(f)
           A == {n.a : n \in K}
           C == Cardinality(K)
           T == (1..(C + 1)) \ A
<1>1. f.blocks \in Seq(BodyBlocks) /\ f.gen \in Nat
  BY DEF Good, Bodies
<1>2. K \subseteq LiveNodes /\ IsFiniteSet(K)
  BY <1>1, SeqNodes, BodyNodes
<1>3. C \in Nat
  BY <1>2, FS_CardinalityType
<1>4. IsFiniteSet(A) /\ Cardinality(A) <= C
  <2>1. [n \in K |-> n.a] \in Surjection(K, A)
    BY DEF Surjection
  <2> HIDE DEF K, A
  <2> QED BY <1>2, <2>1, FS_Surjection
<1>5. Cardinality(A) \in Nat
  BY <1>4, FS_CardinalityType
<1>6. T # {}
  <2> SUFFICES ASSUME 1..(C + 1) \subseteq A PROVE FALSE
    OBVIOUS
  <2> HIDE DEF A, C
  <2>1. Cardinality(1..(C + 1)) <= Cardinality(A)
    BY <1>4, FS_Subset
  <2>2. Cardinality(1..(C + 1)) = C + 1
    BY <1>3, FS_Interval
  <2> QED BY <1>3, <1>4, <1>5, <2>1, <2>2
<1>7. Min(T) \in T
  <2>1. C + 1 \in Nat /\ T \in SUBSET (1..(C + 1))
    BY <1>3
  <2> HIDE DEF T
  <2> QED BY <1>6, <2>1, Smallest
<1>8. NewNode(f) = [a |-> Min(T), g |-> f.gen + 1]
  BY DEF NewNode
<1> HIDE DEF K
<1>9. Min(T) \in Nat \ {0} /\ Min(T) \notin A
  BY <1>3, <1>7
<1> HIDE DEF T
<1>10. NewNode(f) \in LiveNodes /\ NewNode(f).g = f.gen + 1 /\ NewNode(f).a = Min(T)
  BY <1>1, <1>8, <1>9 DEF LiveNodes
<1>11. \A n \in Nodes(f) : n.a # NewNode(f).a
  BY <1>9, <1>10 DEF K
<1> QED BY <1>10, <1>11

-----------------------------------------------------------------------------
(* How an edit changes the nodes of a body. *)

\* It keeps all nodes and makes only new ones, and what is new is noticed.
Grows(f, g) ==
  /\ Good(g)
  /\ \A k \in Kinds : OfBody(k, f) \subseteq OfBody(k, g)
  /\ \A n \in Nodes(g) : n \in Nodes(f) \/ n.g > f.gen
  /\ f.gen <= g.gen /\ f.rev.i <= g.rev.i
  /\ g.erased = f.erased
  /\ f.tracks => g.tracks
  /\ Nodes(g) \subseteq Nodes(f) \/ f.rev.i < g.rev.i

\* Or it makes none, and logs those it erases.
Shrinks(f, g) ==
  /\ Good(g)
  /\ \A k \in Kinds : OfBody(k, g) \subseteq OfBody(k, f)
  /\ g.gen = f.gen /\ g.rev.i = f.rev.i + 1
  /\ g.tracks = f.tracks
  /\ g.erased = Erased(f, Nodes(f) \ Nodes(g)).erased

Evolves(f, g) == Grows(f, g) \/ Shrinks(f, g)

\* What it means that every node is in one place.
LEMMA CleanParts ==
  ASSUME NEW f
  PROVE  Clean(f) <=> /\ CleanBlocks(f.blocks)
                      /\ \A m, n \in Nodes(f) : m.a = n.a => m = n
                      /\ \A n \in Nodes(f) : n.g <= f.gen
  BY DEF Clean, CleanBlocks

\* Fewer nodes of each kind are fewer nodes.
LEMMA NodesFromKinds ==
  ASSUME NEW f, NEW g, \A k \in Kinds : OfSeq(k, g.blocks) \subseteq OfSeq(k, f.blocks)
  PROVE  Nodes(g) \subseteq Nodes(f)
<1>1. \A n \in NodesSeq(g.blocks) : n \in NodesSeq(f.blocks)
  BY KindsOfSeq
<1> QED BY <1>1, BodyNodes

\* A body with the nodes it had grows.
LEMMA SameNodes ==
  ASSUME NEW f, Good(f), NEW g \in Bodies(Logs), CleanBlocks(g.blocks),
         \A k \in Kinds : OfSeq(k, g.blocks) = OfSeq(k, f.blocks),
         g.gen = f.gen, f.rev.i <= g.rev.i, g.erased = f.erased, f.tracks => g.tracks
  PROVE  Grows(f, g)
<1>1. Nodes(g) = Nodes(f)
  <2>1. Nodes(g) \subseteq Nodes(f)
    BY NodesFromKinds
  <2>2. Nodes(f) \subseteq Nodes(g)
    BY NodesFromKinds
  <2> QED BY <2>1, <2>2
<1>2. \A k \in Kinds : OfBody(k, f) \subseteq OfBody(k, g)
  BY BodyNodes
<1>3. Clean(f) /\ f.gen \in Nat
  BY DEF Good, Bodies
<1>4. Good(g)
  BY <1>1, <1>3, CleanParts DEF Good
<1>5. f.gen <= g.gen
  BY <1>3
<1> QED BY <1>1, <1>2, <1>4, <1>5 DEF Grows

\* A body with one new node grows.
LEMMA OneNodeMore ==
  ASSUME NEW f, Good(f), NEW g \in Bodies(Logs), CleanBlocks(g.blocks),
         NEW new, new = NewNode(f), NEW kind \in Kinds,
         \A k \in Kinds : OfSeq(k, g.blocks) = OfSeq(k, f.blocks) \cup (IF k = kind THEN {new} ELSE {}),
         g.gen = f.gen + 1, g.rev.i = f.rev.i + 1, g.erased = f.erased, f.tracks => g.tracks
  PROVE  Grows(f, g)
<1>1. /\ new \in LiveNodes /\ new.g = f.gen + 1
      /\ \A n \in Nodes(f) : n.a # new.a
  BY NewNodeFresh
<1>2. Clean(f) /\ f.gen \in Nat /\ f.rev.i \in Nat
  BY DEF Good, Bodies
<1>3. \A k \in Kinds : OfBody(k, f) \subseteq OfBody(k, g)
  BY BodyNodes
<1>4. ASSUME NEW n \in Nodes(g)
      PROVE  n \in Nodes(f) \/ n = new
  <2>1. PICK k \in Kinds : n \in OfSeq(k, g.blocks)
    BY <1>4, KindsOfSeq, BodyNodes
  <2>2. n \in OfSeq(k, f.blocks) \/ n = new
    BY <2>1
  <2> QED BY <2>2, KindsOfSeq, BodyNodes
<1>5. \A m, n \in Nodes(f) : m.a = n.a => m = n
  BY <1>2, CleanParts
<1>6. \A m, n \in Nodes(g) : m.a = n.a => m = n
  BY <1>1, <1>4, <1>5
<1>7. \A n \in Nodes(f) : n \in LiveNodes /\ n.g <= f.gen
  <2>1. f.blocks \in Seq(BodyBlocks)
    BY DEF Good, Bodies
  <2>2. Nodes(f) \subseteq LiveNodes
    BY <2>1, SeqNodes, BodyNodes
  <2> QED BY <1>2, <2>2, CleanParts
<1>8. \A n \in Nodes(g) : n.g <= g.gen
  <2>1. \A n \in Nodes(f) : n.g \in Nat
    BY <1>7 DEF LiveNodes
  <2> QED BY <1>1, <1>2, <1>4, <1>7, <2>1
<1>9. Good(g)
  BY <1>6, <1>8, CleanParts DEF Good
<1>10. \A n \in Nodes(g) : n \in Nodes(f) \/ n.g > f.gen
  BY <1>1, <1>2, <1>4
<1>11. f.gen <= g.gen /\ f.rev.i <= g.rev.i /\ f.rev.i < g.rev.i
  BY <1>2
<1> QED BY <1>3, <1>9, <1>10, <1>11 DEF Grows

\* A body that logs what it loses shrinks.
LEMMA FewerNodes ==
  ASSUME NEW f, Good(f), NEW g \in Bodies(Logs), CleanBlocks(g.blocks),
         \A k \in Kinds : OfSeq(k, g.blocks) \subseteq OfSeq(k, f.blocks),
         g.gen = f.gen, g.rev.i = f.rev.i + 1, g.tracks = f.tracks,
         g.erased = Erased(f, Nodes(f) \ Nodes(g)).erased
  PROVE  Shrinks(f, g)
<1>1. Nodes(g) \subseteq Nodes(f)
  BY NodesFromKinds
<1>2. \A k \in Kinds : OfBody(k, g) \subseteq OfBody(k, f)
  BY BodyNodes
<1>3. Clean(f) /\ f.gen \in Nat
  BY DEF Good, Bodies
<1>4. Good(g)
  BY <1>1, <1>3, CleanParts DEF Good
<1> QED BY <1>1, <1>2, <1>4 DEF Shrinks

\* A body that stays grows.
LEMMA GrowsSame ==
  ASSUME NEW f, Good(f)
  PROVE  Grows(f, f)
<1>1. f \in Bodies(Logs) /\ CleanBlocks(f.blocks) /\ f.rev.i \in Nat
  BY CleanParts DEF Good, Bodies
<1>2. f.rev.i <= f.rev.i
  BY <1>1
<1> QED BY <1>1, <1>2, SameNodes

\* Growing twice is growing.
LEMMA GrowsOn ==
  ASSUME NEW f, Good(f), NEW g, Grows(f, g), NEW h, Grows(g, h)
  PROVE  Grows(f, h)
<1>1. /\ f.gen \in Nat /\ g.gen \in Nat /\ h.gen \in Nat
      /\ f.rev.i \in Nat /\ g.rev.i \in Nat /\ h.rev.i \in Nat
      /\ h.blocks \in Seq(BodyBlocks)
  BY DEF Grows, Good, Bodies
<1>2. f.gen <= g.gen /\ g.gen <= h.gen /\ f.rev.i <= g.rev.i /\ g.rev.i <= h.rev.i
  BY DEF Grows
<1>3. \A n \in Nodes(h) : n.g \in Nat
  <2>1. Nodes(h) \subseteq LiveNodes
    BY <1>1, SeqNodes, BodyNodes
  <2> QED BY <2>1 DEF LiveNodes
<1>4. \A n \in Nodes(h) : n \in Nodes(f) \/ n.g > f.gen
  <2> SUFFICES ASSUME NEW n \in Nodes(h), n \notin Nodes(f) PROVE n.g > f.gen
    OBVIOUS
  <2>1. CASE n \in Nodes(g)
    BY <2>1 DEF Grows
  <2>2. CASE n \notin Nodes(g)
    <3>1. n.g > g.gen
      BY <2>2 DEF Grows
    <3> QED BY <3>1, <1>1, <1>2, <1>3
  <2> QED BY <2>1, <2>2
<1>5. Nodes(h) \subseteq Nodes(f) \/ f.rev.i < h.rev.i
  <2>1. Nodes(g) \subseteq Nodes(f) \/ f.rev.i < g.rev.i
    BY DEF Grows
  <2>2. Nodes(h) \subseteq Nodes(g) \/ g.rev.i < h.rev.i
    BY DEF Grows
  <2> QED BY <1>1, <1>2, <2>1, <2>2
<1>6. \A k \in Kinds : OfBody(k, f) \subseteq OfBody(k, h)
  BY DEF Grows
<1>7. f.gen <= h.gen /\ f.rev.i <= h.rev.i
  BY <1>1, <1>2
<1>8. Good(h) /\ h.erased = f.erased /\ (f.tracks => h.tracks)
  BY DEF Grows
<1> QED BY <1>4, <1>5, <1>6, <1>7, <1>8 DEF Grows

\* Every edit leaves a good body.
LEMMA EvolvesGood ==
  ASSUME NEW f, NEW g, Evolves(f, g)
  PROVE  Good(g)
  BY DEF Evolves, Grows, Shrinks

\* Every node of a body has an address and was made.
LEMMA NodesAreLive ==
  ASSUME NEW f, Good(f)
  PROVE  /\ Nodes(f) \subseteq LiveNodes
         /\ \A n \in Nodes(f) : n.g <= f.gen
         /\ \A m, n \in Nodes(f) : m.a = n.a => m = n
<1>1. f.blocks \in Seq(BodyBlocks)
  BY DEF Good, Bodies
<1>2. Nodes(f) \subseteq LiveNodes
  BY <1>1, SeqNodes, BodyNodes
<1> QED BY <1>2, CleanParts DEF Good

\* What the log holds after an erasure.
LEMMA ErasureLog ==
  ASSUME NEW f, Good(f), NEW R \in SUBSET LiveNodes
  PROVE  LET A == {n.a : n \in R}
             e == Erased(f, R).erased
         IN  /\ e \in Logs
             /\ ~f.tracks => e = f.erased
             /\ f.tracks => /\ DOMAIN e = A \cup DOMAIN f.erased
                            /\ \A a \in A : e[a] = f.rev.i + 1
                            /\ \A a \in DOMAIN f.erased \ A : e[a] = f.erased[a]
<1> DEFINE A == {n.a : n \in R}
           e == Erased(f, R).erased
           added == [a \in A \cup DOMAIN f.erased |-> IF a \in A THEN f.rev.i + 1 ELSE f.erased[a]]
<1>1. f.erased \in Logs /\ f.rev.i \in Nat /\ A \subseteq Nat
  BY DEF Good, Bodies, LiveNodes
<1>2. PICK S \in SUBSET Nat : f.erased \in [S -> Nat]
  BY <1>1 DEF Logs
<1>3. ~f.tracks => e = f.erased
  BY DEF Erased
<1>4. f.tracks => e = added
  <2>1. f.tracks => Erased(f, R) = [f EXCEPT !.erased = added]
    BY DEF Erased
  <2> HIDE DEF added
  <2> QED BY <2>1 DEF Good, Bodies
<1>5. /\ DOMAIN added = A \cup DOMAIN f.erased
      /\ \A a \in A : added[a] = f.rev.i + 1
      /\ \A a \in DOMAIN f.erased \ A : added[a] = f.erased[a]
  OBVIOUS
<1>6. added \in [A \cup S -> Nat]
  <2>1. added = [x \in A \cup S |-> added[x]]
    BY <1>2
  <2>2. \A x \in A \cup S : added[x] \in Nat
    <3>1. DOMAIN f.erased = S /\ \A a \in S : f.erased[a] \in Nat
      BY <1>2
    <3>2. f.rev.i + 1 \in Nat
      BY <1>1
    <3> HIDE DEF A, added
    <3> QED BY <3>1, <3>2, <1>5
  <2> HIDE DEF added
  <2> QED BY <2>1, <2>2
<1>7. A \cup S \in SUBSET Nat
  BY <1>1, <1>2
<1>8. added \in Logs
  <2> HIDE DEF added, A
  <2> QED BY <1>6, <1>7 DEF Logs
<1>9. e \in Logs
  BY <1>1, <1>3, <1>4, <1>8
<1> HIDE DEF e, added
<1> QED BY <1>3, <1>4, <1>5, <1>9 DEF e

\* No edit makes the log of erased addresses younger than the body.
LEMMA LogAfter ==
  ASSUME NEW f, Good(f), LogSound(f), NEW g, Evolves(f, g)
  PROVE  LogSound(g)
<1>1. /\ f.rev.i \in Nat /\ g.rev.i \in Nat /\ f.gen \in Nat
      /\ f.erased \in Logs
  BY EvolvesGood DEF Good, Bodies
<1>2. \A a \in DOMAIN f.erased : f.erased[a] \in Nat /\ f.erased[a] <= f.rev.i
  BY <1>1 DEF Logs, LogSound
<1>3. CASE Grows(f, g)
  <2>1. g.erased = f.erased /\ f.rev.i <= g.rev.i
    BY <1>3 DEF Grows
  <2>2. \A a \in DOMAIN g.erased : g.erased[a] <= g.rev.i
    BY <1>1, <1>2, <2>1
  <2>3. ASSUME NEW n \in Nodes(g), n.a \in DOMAIN g.erased
        PROVE  g.erased[n.a] < g.rev.i
    <3>1. CASE n \in Nodes(f)
      <4>1. f.erased[n.a] < f.rev.i
        BY <2>1, <2>3, <3>1 DEF LogSound
      <4> QED BY <4>1, <1>1, <1>2, <2>1, <2>3
    <3>2. CASE n \notin Nodes(f)
      <4>1. f.rev.i < g.rev.i
        BY <1>3, <3>2 DEF Grows
      <4> QED BY <4>1, <1>1, <1>2, <2>1, <2>3
    <3> QED BY <3>1, <3>2
  <2> QED BY <2>2, <2>3 DEF LogSound
<1>4. CASE Shrinks(f, g)
  <2> DEFINE R == Nodes(f) \ Nodes(g)
             A == {n.a : n \in R}
  <2>1. R \in SUBSET LiveNodes
    BY NodesAreLive
  <2>2. g.rev.i = f.rev.i + 1 /\ g.erased = Erased(f, R).erased
    BY <1>4 DEF Shrinks
  <2>3. Nodes(g) \subseteq Nodes(f)
    <3>1. \A k \in Kinds : OfSeq(k, g.blocks) \subseteq OfSeq(k, f.blocks)
      BY <1>4, BodyNodes DEF Shrinks
    <3> QED BY <3>1, NodesFromKinds
  <2>4. \A n \in Nodes(g) : n.a \notin A
    BY <2>3, NodesAreLive
  <2> HIDE DEF R
  <2>5. CASE ~f.tracks
    <3>1. g.erased = f.erased
      BY <2>1, <2>2, <2>5, ErasureLog
    <3>2. \A a \in DOMAIN g.erased : g.erased[a] <= g.rev.i /\ g.erased[a] < g.rev.i
      BY <3>1, <1>1, <1>2, <2>2
    <3> QED BY <3>2 DEF LogSound
  <2>6. CASE f.tracks
    <3>1. /\ DOMAIN g.erased = A \cup DOMAIN f.erased
          /\ \A a \in A : g.erased[a] = f.rev.i + 1
          /\ \A a \in DOMAIN f.erased \ A : g.erased[a] = f.erased[a]
      BY <2>1, <2>2, <2>6, ErasureLog
    <3> HIDE DEF A
    <3>2. \A a \in DOMAIN g.erased : g.erased[a] <= g.rev.i
      BY <3>1, <1>1, <1>2, <2>2
    <3>3. \A a \in DOMAIN g.erased : a \notin A => g.erased[a] < g.rev.i
      BY <3>1, <1>1, <1>2, <2>2
    <3> QED BY <2>4, <3>2, <3>3 DEF LogSound
  <2> QED BY <2>5, <2>6
<1> QED BY <1>3, <1>4 DEF Evolves

\* A node that is somewhere in both bodies is of the same kind in both.
LEMMA KindKept ==
  ASSUME NEW f, Good(f), NEW g, Evolves(f, g), NEW k \in Kinds, NEW n \in OfBody(k, f), n \in Nodes(g)
  PROVE  n \in OfBody(k, g)
<1>1. CASE Grows(f, g)
  BY <1>1 DEF Grows
<1>2. CASE Shrinks(f, g)
  <2>1. PICK l \in Kinds : n \in OfSeq(l, g.blocks)
    BY KindsOfSeq, BodyNodes
  <2>2. n \in OfSeq(l, f.blocks) /\ n \in OfSeq(k, f.blocks)
    BY <1>2, <2>1, BodyNodes DEF Shrinks
  <2>3. CleanBlocks(f.blocks)
    BY CleanParts DEF Good
  <2>4. l = k
    BY <2>2, <2>3, OneKind
  <2> QED BY <2>1, <2>4, BodyNodes
<1> QED BY <1>1, <1>2 DEF Evolves

\* What is not in a body and as old as the body does not come back.
LEMMA OldNodes ==
  ASSUME NEW f, Good(f), NEW g, Evolves(f, g), NEW n \in [a : Nat, g : Nat], n.g <= f.gen, n \in Nodes(g)
  PROVE  n \in Nodes(f)
<1>1. f.gen \in Nat
  BY DEF Good, Bodies
<1>2. CASE Grows(f, g)
  BY <1>1, <1>2 DEF Grows
<1>3. CASE Shrinks(f, g)
  <2>1. \A k \in Kinds : OfSeq(k, g.blocks) \subseteq OfSeq(k, f.blocks)
    BY <1>3, BodyNodes DEF Shrinks
  <2> QED BY <2>1, NodesFromKinds
<1> QED BY <1>2, <1>3 DEF Evolves

\* Counts only grow.
LEMMA GenAfter ==
  ASSUME NEW f, Good(f), NEW g, Evolves(f, g)
  PROVE  f.gen \in Nat /\ g.gen \in Nat /\ f.gen <= g.gen
         /\ f.rev.i \in Nat /\ g.rev.i \in Nat /\ f.rev.i <= g.rev.i
<1>1. f.gen \in Nat /\ g.gen \in Nat /\ f.rev.i \in Nat /\ g.rev.i \in Nat
  BY EvolvesGood DEF Good, Bodies
<1>2. f.gen <= g.gen /\ f.rev.i <= g.rev.i
  BY <1>1 DEF Evolves, Grows, Shrinks
<1> QED BY <1>1, <1>2

\* Where a batch inserts is a block, or gone for good.
LEMMA BatchAfter ==
  ASSUME NEW f, Good(f), NEW g, Evolves(f, g), NEW v, v.insert \in Positions, BatchSound(f, v)
  PROVE  BatchSound(g, v)
<1>1. v.insert \in [a : Nat, g : Nat] /\ v.insert.g <= f.gen
  BY DEF Positions, LiveNodes, None, BatchSound
<1>2. v.insert.g <= g.gen
  BY <1>1, GenAfter
<1>3. v.insert \in Nodes(g) => v.insert \in OfBody("block", g)
  <2> SUFFICES ASSUME v.insert \in Nodes(g) PROVE v.insert \in OfBody("block", g)
    OBVIOUS
  <2>1. v.insert \in Nodes(f)
    BY <1>1, OldNodes
  <2>2. v.insert \in OfBody("block", f)
    BY <2>1 DEF BatchSound
  <2>3. "block" \in Kinds
    BY DEF Kinds
  <2> QED BY <2>2, <2>3, KindKept
<1> QED BY <1>2, <1>3 DEF BatchSound

\* A handle goes on telling whether its node was erased.
LEMMA HandleAfter ==
  ASSUME NEW f, Good(f), LogSound(f), f.tracks, NEW g, Evolves(f, g), NEW h, HandleSound(f, h)
  PROVE  HandleSound(g, h)
<1>1. /\ h \in [batch : Batches, kind : Kinds, node : LiveNodes, rev : Nat]
      /\ h.node.g <= f.gen /\ h.rev <= f.rev.i
      /\ h.node \in Nodes(f) => h.node \in OfBody(h.kind, f)
      /\ WasErased(f, h.node.a, h.rev) <=> h.node \notin Nodes(f)
  BY DEF HandleSound
<1>2. h.node \in LiveNodes /\ h.node \in [a : Nat, g : Nat] /\ h.kind \in Kinds /\ h.rev \in Nat /\ h.node.g \in Nat
  BY <1>1 DEF LiveNodes
<1>3. h.node.g <= g.gen /\ h.rev <= g.rev.i
  BY <1>1, <1>2, GenAfter
<1>4. h.node \in Nodes(g) => h.node \in Nodes(f)
  BY <1>1, <1>2, OldNodes
<1>5. h.node \in Nodes(g) => h.node \in OfBody(h.kind, g)
  BY <1>1, <1>2, <1>4, KindKept
<1>6. WasErased(g, h.node.a, h.rev) <=> h.node \notin Nodes(g)
  <2>1. CASE Grows(f, g)
    <3>1. g.erased = f.erased
      BY <2>1 DEF Grows
    <3>2. h.node \in Nodes(f) => h.node \in Nodes(g)
      <4>1. h.node \in Nodes(f) => h.node \in OfBody(h.kind, g)
        BY <1>1, <1>2, <2>1 DEF Grows
      <4> QED BY <4>1, <1>2, KindsOfSeq, BodyNodes
    <3> QED BY <1>1, <1>4, <3>1, <3>2 DEF WasErased
  <2>2. CASE Shrinks(f, g)
    <3> DEFINE R == Nodes(f) \ Nodes(g)
               A == {n.a : n \in R}
    <3>1. R \in SUBSET LiveNodes
      BY NodesAreLive
    <3>2. g.erased = Erased(f, R).erased
      BY <2>2 DEF Shrinks
    <3>3. h.node \in R => h.node.a \in A
      OBVIOUS
    <3>4. h.node \in Nodes(f) /\ h.node \notin R => h.node.a \notin A
      BY NodesAreLive
    <3>5. h.node \in Nodes(g) <=> h.node \in Nodes(f) /\ h.node \notin R
      BY <1>4
    <3> HIDE DEF R
    <3>6. /\ DOMAIN g.erased = A \cup DOMAIN f.erased
          /\ \A a \in A : g.erased[a] = f.rev.i + 1
          /\ \A a \in DOMAIN f.erased \ A : g.erased[a] = f.erased[a]
      BY <3>1, <3>2, ErasureLog
    <3> HIDE DEF A
    <3>7. f.rev.i \in Nat /\ h.rev <= f.rev.i + 1
      BY <1>1, <1>2, GenAfter
    <3>8. h.node.a \in A => WasErased(g, h.node.a, h.rev)
      BY <3>6, <3>7 DEF WasErased
    <3>9. h.node.a \notin A => (WasErased(g, h.node.a, h.rev) <=> WasErased(f, h.node.a, h.rev))
      BY <3>6 DEF WasErased
    <3> QED BY <1>1, <3>3, <3>4, <3>5, <3>8, <3>9
  <2> QED BY <2>1, <2>2 DEF Evolves
<1> QED BY <1>1, <1>3, <1>5, <1>6 DEF HandleSound

-----------------------------------------------------------------------------
(* The form every edit of the blocks has: new blocks, as many new nodes,   *)
(* a log, and whether the graph changed.                                   *)

Published(f, s, more, log, cfg) ==
  [blocks |-> s, regs |-> f.regs, backed |-> f.backed, data |-> f.data, gen |-> f.gen + more, tracks |-> f.tracks,
   erased |-> log, rev |-> [i |-> f.rev.i + 1, c |-> IF cfg THEN f.rev.c + 1 ELSE f.rev.c, r |-> f.rev.r]]

\* The published body is typed when the blocks and the log are.
LEMMA PublishedTyped ==
  ASSUME NEW f \in Bodies(Logs), NEW s \in Seq(BodyBlocks), NEW more \in Nat, NEW log \in Logs, NEW cfg
  PROVE  Published(f, s, more, log, cfg) \in Bodies(Logs)
<1>1. /\ f.regs \in SUBSET Registers /\ f.backed \in SUBSET Registers /\ f.data \in SUBSET LiveNodes
      /\ f.gen + more \in Nat /\ f.tracks \in BOOLEAN
      /\ [i |-> f.rev.i + 1, c |-> IF cfg THEN f.rev.c + 1 ELSE f.rev.c, r |-> f.rev.r] \in [i : Nat, c : Nat, r : Nat]
  BY DEF Bodies
<1> QED BY <1>1 DEF Published, Bodies

\* The blocks hold the same nodes: the body has the nodes it had.
LEMMA PublishedSame ==
  ASSUME NEW f, Good(f), NEW s \in Seq(BodyBlocks), CleanBlocks(s), NEW cfg,
         \A k \in Kinds : OfSeq(k, s) = OfSeq(k, f.blocks)
  PROVE  Grows(f, Published(f, s, 0, f.erased, cfg))
<1> DEFINE g == Published(f, s, 0, f.erased, cfg)
<1>1. f \in Bodies(Logs) /\ f.erased \in Logs /\ f.gen \in Nat /\ f.rev.i \in Nat
  BY DEF Good, Bodies
<1>2. g \in Bodies(Logs)
  BY <1>1, PublishedTyped
<1>3. /\ g.blocks = s /\ g.gen = f.gen /\ f.rev.i <= g.rev.i /\ g.erased = f.erased /\ g.tracks = f.tracks
  BY <1>1 DEF Published
<1> HIDE DEF g
<1>4. Grows(f, g)
  BY <1>2, <1>3, SameNodes
<1> QED BY <1>4 DEF g

\* The blocks hold one node more, of one kind.
LEMMA PublishedMore ==
  ASSUME NEW f, Good(f), NEW s \in Seq(BodyBlocks), CleanBlocks(s), NEW cfg, NEW kind \in Kinds,
         \A k \in Kinds : OfSeq(k, s) = OfSeq(k, f.blocks) \cup (IF k = kind THEN {NewNode(f)} ELSE {})
  PROVE  Grows(f, Published(f, s, 1, f.erased, cfg))
<1> DEFINE g == Published(f, s, 1, f.erased, cfg)
<1>1. f \in Bodies(Logs) /\ f.erased \in Logs /\ f.gen \in Nat /\ f.rev.i \in Nat
  BY DEF Good, Bodies
<1>2. g \in Bodies(Logs)
  BY <1>1, PublishedTyped
<1>3. /\ g.blocks = s /\ g.gen = f.gen + 1 /\ g.rev.i = f.rev.i + 1 /\ g.erased = f.erased /\ g.tracks = f.tracks
  BY <1>1 DEF Published
<1> HIDE DEF g
<1>4. PICK new : new = NewNode(f)
  OBVIOUS
<1>5. Grows(f, g)
  BY <1>2, <1>3, <1>4, OneNodeMore
<1> QED BY <1>5 DEF g

\* The blocks hold fewer nodes, and those that went are logged.
LEMMA PublishedFewer ==
  ASSUME NEW f, Good(f), NEW s \in Seq(BodyBlocks), CleanBlocks(s), NEW cfg, NEW R \in SUBSET LiveNodes,
         \A k \in Kinds : OfSeq(k, s) \subseteq OfSeq(k, f.blocks),
         R = NodesSeq(f.blocks) \ NodesSeq(s)
  PROVE  Shrinks(f, Published(f, s, 0, Erased(f, R).erased, cfg))
<1> DEFINE g == Published(f, s, 0, Erased(f, R).erased, cfg)
<1>1. f \in Bodies(Logs) /\ f.erased \in Logs /\ f.gen \in Nat /\ f.rev.i \in Nat
  BY DEF Good, Bodies
<1>2. g \in Bodies(Logs)
  <2>1. Erased(f, R).erased \in Logs
    BY ErasureLog
  <2> QED BY <1>1, <2>1, PublishedTyped
<1>3. /\ g.blocks = s /\ g.gen = f.gen /\ g.rev.i = f.rev.i + 1 /\ g.erased = Erased(f, R).erased /\ g.tracks = f.tracks
  BY <1>1 DEF Published
<1> HIDE DEF g
<1>4. R = Nodes(f) \ Nodes(g)
  BY <1>3, BodyNodes
<1>5. Shrinks(f, g)
  BY <1>2, <1>3, <1>4, FewerNodes
<1> QED BY <1>5 DEF g

-----------------------------------------------------------------------------
(* Where a node is. *)

\* A block found by its node.
LEMMA BlockFound ==
  ASSUME NEW f, NEW n, n \in OfBody("block", f)
  PROVE  BlockAt(f, n) \in DOMAIN f.blocks /\ f.blocks[BlockAt(f, n)].n = n
<1>1. \E b \in DOMAIN f.blocks : f.blocks[b].n = n
  BY DEF OfBody, OfKind
<1> QED BY <1>1 DEF BlockAt

\* An instruction found by its node.
LEMMA PlaceFound ==
  ASSUME NEW f, NEW n, n \in OfBody("ins", f)
  PROVE  /\ BlockOf(f, n) \in DOMAIN f.blocks
         /\ PlaceOf(f, n) \in DOMAIN f.blocks[BlockOf(f, n)].ins
         /\ f.blocks[BlockOf(f, n)].ins[PlaceOf(f, n)].n = n
<1>1. \E b \in DOMAIN f.blocks : \E i \in DOMAIN f.blocks[b].ins : f.blocks[b].ins[i].n = n
  BY DEF OfBody, OfKind, Range
<1>2. BlockOf(f, n) \in DOMAIN f.blocks /\ \E i \in DOMAIN f.blocks[BlockOf(f, n)].ins : f.blocks[BlockOf(f, n)].ins[i].n = n
  BY <1>1 DEF BlockOf
<1> QED BY <1>2 DEF PlaceOf

\* What a good body says of its blocks.
LEMMA GoodBlocks ==
  ASSUME NEW f, Good(f)
  PROVE  /\ f.blocks \in Seq(BodyBlocks) /\ CleanBlocks(f.blocks)
         /\ Len(f.blocks) \in Nat /\ DOMAIN f.blocks = 1..Len(f.blocks)
         /\ \A b \in DOMAIN f.blocks :
              /\ f.blocks[b] \in BodyBlocks /\ CleanBlock(f.blocks[b])
              /\ Distinct(f.blocks[b].ins) /\ f.blocks[b].ins \in Seq(Instructions)
              /\ Len(f.blocks[b].ins) \in Nat /\ DOMAIN f.blocks[b].ins = 1..Len(f.blocks[b].ins)
              /\ f.blocks[b].labels \in Seq(LiveNodes) /\ f.blocks[b].n \in LiveNodes
              /\ Len(f.blocks[b].labels) \in Nat /\ DOMAIN f.blocks[b].labels = 1..Len(f.blocks[b].labels)
              /\ InsNodes(f.blocks[b].ins) = OfKind("ins", f.blocks[b])
<1>1. f.blocks \in Seq(BodyBlocks) /\ CleanBlocks(f.blocks)
  BY CleanParts DEF Good, Bodies
<1>2. Len(f.blocks) \in Nat /\ DOMAIN f.blocks = 1..Len(f.blocks)
  BY <1>1, LenProperties
<1>3. ASSUME NEW b \in DOMAIN f.blocks
      PROVE  /\ f.blocks[b] \in BodyBlocks /\ CleanBlock(f.blocks[b])
             /\ Distinct(f.blocks[b].ins) /\ f.blocks[b].ins \in Seq(Instructions)
             /\ Len(f.blocks[b].ins) \in Nat /\ DOMAIN f.blocks[b].ins = 1..Len(f.blocks[b].ins)
             /\ f.blocks[b].labels \in Seq(LiveNodes) /\ f.blocks[b].n \in LiveNodes
             /\ Len(f.blocks[b].labels) \in Nat /\ DOMAIN f.blocks[b].labels = 1..Len(f.blocks[b].labels)
             /\ InsNodes(f.blocks[b].ins) = OfKind("ins", f.blocks[b])
  <2>1. f.blocks[b] \in BodyBlocks
    BY <1>1, <1>2, ElementOfSeq
  <2>2. CleanBlock(f.blocks[b])
    BY <1>1 DEF CleanBlocks
  <2>3. f.blocks[b].ins \in Seq(Instructions) /\ f.blocks[b].labels \in Seq(LiveNodes) /\ f.blocks[b].n \in LiveNodes
    BY <2>1 DEF BodyBlocks
  <2>4. Distinct(f.blocks[b].ins)
    BY <2>2 DEF CleanBlock, Distinct
  <2>5. InsNodes(f.blocks[b].ins) = OfKind("ins", f.blocks[b])
    BY DEF InsNodes, OfKind
  <2>6. Len(f.blocks[b].ins) \in Nat /\ DOMAIN f.blocks[b].ins = 1..Len(f.blocks[b].ins)
    BY <2>3, LenProperties
  <2>7. Len(f.blocks[b].labels) \in Nat /\ DOMAIN f.blocks[b].labels = 1..Len(f.blocks[b].labels)
    BY <2>3, LenProperties
  <2> QED BY <2>1, <2>2, <2>3, <2>4, <2>5, <2>6, <2>7
<1> QED BY <1>1, <1>2, <1>3

-----------------------------------------------------------------------------
(* A block with other instructions, or other labels. *)

WithIns(s, b, t) == [s EXCEPT ![b] = [s[b] EXCEPT !.ins = t]]

WithLabs(s, b, t) == [s EXCEPT ![b] = [s[b] EXCEPT !.labels = t]]

\* The other block y of s is t's, and of the kind that changed t holds Y.
OneKindChanged(t, s, b, y, kind, Y) ==
  /\ t \in Seq(BodyBlocks) /\ CleanBlocks(t) /\ Len(t) = Len(s) /\ DOMAIN t = DOMAIN s
  /\ t[b] = y
  /\ \A c \in DOMAIN s : c # b => t[c] = s[c]
  /\ OfSeq(kind, t) = (OfSeq(kind, s) \ OfKind(kind, s[b])) \cup Y
  /\ \A k \in Kinds : k # kind => OfSeq(k, t) = OfSeq(k, s)

\* Instructions a block holds already, or that are nowhere in the body, replace those of the block.
LEMMA InsChanged ==
  ASSUME NEW s \in Seq(BodyBlocks), CleanBlocks(s), NEW b \in DOMAIN s, NEW t \in Seq(Instructions), Distinct(t),
         NEW X, InsNodes(t) \subseteq OfKind("ins", s[b]) \cup X, X \cap NodesSeq(s) = {}
  PROVE  OneKindChanged(WithIns(s, b, t), s, b, [s[b] EXCEPT !.ins = t], "ins", InsNodes(t))
<1> DEFINE blk == s[b]
           y == [blk EXCEPT !.ins = t]
<1>1. blk \in BodyBlocks /\ CleanBlock(blk)
  <2>1. DOMAIN s = 1..Len(s)
    BY LenProperties
  <2> QED BY <2>1, ElementOfSeq DEF CleanBlocks
<1>2. "ins" \in Kinds /\ "block" \in Kinds /\ "label" \in Kinds /\ "ins" # "block" /\ "ins" # "label"
  BY DEF Kinds
<1>3. NodesIn(blk) \subseteq NodesSeq(s)
  BY DEF NodesSeq
<1>4. /\ OfKind("block", blk) \subseteq NodesIn(blk) /\ OfKind("label", blk) \subseteq NodesIn(blk)
      /\ OfKind("ins", blk) \subseteq NodesIn(blk)
  BY <1>2, KindsOfBlock
<1>5. /\ OfKind("block", blk) \cap OfKind("ins", blk) = {}
      /\ OfKind("label", blk) \cap OfKind("ins", blk) = {}
  BY <1>1, <1>2 DEF CleanBlock
<1>6. InsNodes(t) \cap (OfKind("block", blk) \cup OfKind("label", blk)) = {}
  <2> HIDE DEF blk
  <2>1. InsNodes(t) \subseteq OfKind("ins", blk) \cup X
    BY DEF blk
  <2> QED BY <1>3, <1>4, <1>5, <2>1
<1> HIDE DEF blk
<1>7. /\ y \in BodyBlocks /\ CleanBlock(y)
      /\ OfKind("ins", y) = InsNodes(t)
      /\ \A k \in Kinds : k # "ins" => OfKind(k, y) = OfKind(k, blk)
      /\ NodesIn(y) = OfKind("block", blk) \cup OfKind("label", blk) \cup InsNodes(t)
  BY <1>1, <1>6, WithInstructions
<1> HIDE DEF y
<1>8. NodesIn(y) \subseteq NodesIn(s[b]) \cup X
  BY <1>4, <1>7 DEF blk
<1>9. Replaced([s EXCEPT ![b] = y], s, b, y)
  BY <1>7, <1>8, BlockReplaced
<1>10. PICK u : u = [s EXCEPT ![b] = y]
  OBVIOUS
<1>11. Replaced(u, s, b, y)
  BY <1>9, <1>10
<1>12. ASSUME NEW k \in Kinds, k # "ins"
       PROVE  OfSeq(k, u) = OfSeq(k, s)
  <2>1. OfSeq(k, u) = (OfSeq(k, s) \ OfKind(k, blk)) \cup OfKind(k, blk)
    BY <1>7, <1>11, <1>12 DEF Replaced, blk
  <2>2. OfKind(k, blk) \subseteq OfSeq(k, s)
    BY DEF OfSeq, blk
  <2> QED BY <2>1, <2>2
<1>13. OfSeq("ins", u) = (OfSeq("ins", s) \ OfKind("ins", s[b])) \cup InsNodes(t)
  BY <1>2, <1>7, <1>11 DEF Replaced
<1>14. OneKindChanged(u, s, b, y, "ins", InsNodes(t))
  BY <1>11, <1>12, <1>13 DEF OneKindChanged, Replaced
<1> QED BY <1>10, <1>14 DEF WithIns, y, blk

\* The same for labels.
LEMMA LabsChanged ==
  ASSUME NEW s \in Seq(BodyBlocks), CleanBlocks(s), NEW b \in DOMAIN s, NEW t \in Seq(LiveNodes),
         \A i, j \in DOMAIN t : t[i] = t[j] => i = j,
         NEW X, Range(t) \subseteq OfKind("label", s[b]) \cup X, X \cap NodesSeq(s) = {}
  PROVE  OneKindChanged(WithLabs(s, b, t), s, b, [s[b] EXCEPT !.labels = t], "label", Range(t))
<1> DEFINE blk == s[b]
           y == [blk EXCEPT !.labels = t]
<1>1. blk \in BodyBlocks /\ CleanBlock(blk)
  <2>1. DOMAIN s = 1..Len(s)
    BY LenProperties
  <2> QED BY <2>1, ElementOfSeq DEF CleanBlocks
<1>2. "ins" \in Kinds /\ "block" \in Kinds /\ "label" \in Kinds /\ "label" # "block" /\ "ins" # "label"
  BY DEF Kinds
<1>3. NodesIn(blk) \subseteq NodesSeq(s)
  BY DEF NodesSeq
<1>4. /\ OfKind("block", blk) \subseteq NodesIn(blk) /\ OfKind("label", blk) \subseteq NodesIn(blk)
      /\ OfKind("ins", blk) \subseteq NodesIn(blk)
  BY <1>2, KindsOfBlock
<1>5. /\ OfKind("block", blk) \cap OfKind("label", blk) = {}
      /\ OfKind("label", blk) \cap OfKind("ins", blk) = {}
  BY <1>1, <1>2 DEF CleanBlock
<1>6. Range(t) \cap (OfKind("block", blk) \cup OfKind("ins", blk)) = {}
  <2> HIDE DEF blk
  <2>1. Range(t) \subseteq OfKind("label", blk) \cup X
    BY DEF blk
  <2> QED BY <1>3, <1>4, <1>5, <2>1
<1> HIDE DEF blk
<1>7. /\ y \in BodyBlocks /\ CleanBlock(y)
      /\ OfKind("label", y) = Range(t)
      /\ \A k \in Kinds : k # "label" => OfKind(k, y) = OfKind(k, blk)
      /\ NodesIn(y) = OfKind("block", blk) \cup Range(t) \cup OfKind("ins", blk)
  BY <1>1, <1>6, WithLabels
<1> HIDE DEF y
<1>8. NodesIn(y) \subseteq NodesIn(s[b]) \cup X
  BY <1>4, <1>7 DEF blk
<1>9. Replaced([s EXCEPT ![b] = y], s, b, y)
  BY <1>7, <1>8, BlockReplaced
<1>10. PICK u : u = [s EXCEPT ![b] = y]
  OBVIOUS
<1>11. Replaced(u, s, b, y)
  BY <1>9, <1>10
<1>12. ASSUME NEW k \in Kinds, k # "label"
       PROVE  OfSeq(k, u) = OfSeq(k, s)
  <2>1. OfSeq(k, u) = (OfSeq(k, s) \ OfKind(k, blk)) \cup OfKind(k, blk)
    BY <1>7, <1>11, <1>12 DEF Replaced, blk
  <2>2. OfKind(k, blk) \subseteq OfSeq(k, s)
    BY DEF OfSeq, blk
  <2> QED BY <2>1, <2>2
<1>13. OfSeq("label", u) = (OfSeq("label", s) \ OfKind("label", s[b])) \cup Range(t)
  BY <1>2, <1>7, <1>11 DEF Replaced
<1>14. OneKindChanged(u, s, b, y, "label", Range(t))
  BY <1>11, <1>12, <1>13 DEF OneKindChanged, Replaced
<1> QED BY <1>10, <1>14 DEF WithLabs, y, blk

-----------------------------------------------------------------------------
(* A block more, or a block less. *)

\* An insertion draws from the sequence with the member at its end.
LEMMA InsertedDrawn ==
  ASSUME NEW S, NEW s \in Seq(S), NEW e \in S, NEW p \in 1..(Len(s) + 1)
  PROVE  Draws(InsertAt(s, p, e), Append(s, e), 1..(Len(s) + 1))
<1> DEFINE t == InsertAt(s, p, e)
           u == Append(s, e)
           N == Len(s) + 1
           w == [i \in 1..N |-> IF i < p THEN i ELSE IF i = p THEN N ELSE i - 1]
<1>1. Len(s) \in Nat /\ p \in Int
  BY LenProperties
<1>2. Len(t) = N /\ \A i \in 1..N : t[i] = IF i < p THEN s[i] ELSE IF i = p THEN e ELSE s[i - 1]
  BY InsertedAt DEF InsertedAs
<1>3. u[N] = e /\ \A i \in 1..Len(s) : u[i] = s[i]
  BY AppendProperties
<1> HIDE DEF t, u
<1>4. w \in [1..N -> 1..N]
  BY <1>1
<1>5. ASSUME NEW i \in 1..N
      PROVE  t[i] = u[w[i]]
  <2>1. CASE i < p
    <3>1. i \in 1..Len(s) /\ w[i] = i
      BY <1>1, <2>1
    <3> QED BY <1>2, <1>3, <2>1, <3>1
  <2>2. CASE i = p
    BY <1>1, <1>2, <1>3, <2>2
  <2>3. CASE i > p
    <3>1. i - 1 \in 1..Len(s) /\ w[i] = i - 1 /\ ~(i < p) /\ i # p
      BY <1>1, <2>3
    <3> QED BY <1>2, <1>3, <3>1
  <2> QED BY <1>1, <2>1, <2>2, <2>3
<1>6. \A i, j \in 1..N : w[i] = w[j] => i = j
  BY <1>1
<1>7. ASSUME NEW q \in 1..N
      PROVE  \E i \in 1..N : w[i] = q
  <2>1. CASE q = N
    <3>1. w[p] = q
      BY <1>1, <2>1
    <3> QED BY <1>1, <3>1
  <2>2. CASE q # N /\ q < p
    BY <1>1, <2>2
  <2>3. CASE q # N /\ q >= p
    <3>1. q + 1 \in 1..N /\ w[q + 1] = q
      BY <1>1, <2>3
    <3> QED BY <3>1
  <2>4. q < p \/ q >= p
    BY <1>1
  <2> QED BY <2>1, <2>2, <2>3, <2>4
<1> HIDE DEF w, N
<1>8. Draws(t, u, 1..N)
  BY <1>2, <1>4, <1>5, <1>6, <1>7, ZenonT(30) DEF Draws
<1> QED BY <1>8 DEF t, u, N

\* A removal draws all the others.
LEMMA RemovedDrawn ==
  ASSUME NEW S, NEW s \in Seq(S), NEW p \in 1..Len(s)
  PROVE  Draws(RemoveAt(s, p), s, (1..Len(s)) \ {p})
<1> DEFINE t == RemoveAt(s, p)
           N == Len(s)
           I == (1..N) \ {p}
           w == [i \in 1..Len(t) |-> IF i < p THEN i ELSE i + 1]
<1>1. N \in Nat /\ p \in Int
  BY LenProperties
<1>2. Len(t) = N - 1 /\ \A i \in 1..Len(t) : t[i] = IF i < p THEN s[i] ELSE s[i + 1]
  BY RemovedAt DEF RemovedAs
<1> HIDE DEF t, N
<1>3. w \in [1..Len(t) -> I]
  BY <1>1, <1>2
<1>4. \A i, j \in 1..Len(t) : w[i] = w[j] => i = j
  BY <1>1, <1>2
<1>5. ASSUME NEW q \in I
      PROVE  \E i \in 1..Len(t) : w[i] = q
  <2>1. CASE q < p
    <3>1. p <= N
      BY DEF N
    <3>2. q \in 1..Len(t) /\ w[q] = q
      BY <1>1, <1>2, <2>1, <3>1
    <3> QED BY <3>2
  <2>2. CASE q > p
    <3>0. 1 <= p
      OBVIOUS
    <3>1. q - 1 \in 1..Len(t) /\ w[q - 1] = q
      BY <1>1, <1>2, <2>2, <3>0
    <3> QED BY <3>1
  <2> QED BY <1>1, <2>1, <2>2
<1>6. \A i \in 1..Len(t) : t[i] = s[w[i]]
  BY <1>1, <1>2
<1> HIDE DEF w, I
<1>7. Draws(t, s, I)
  BY <1>3, <1>4, <1>5, <1>6 DEF Draws
<1> QED BY <1>7 DEF t, I, N

\* A clean block with nodes of its own is inserted.
LEMMA BlockInserted ==
  ASSUME NEW s \in Seq(BodyBlocks), CleanBlocks(s), NEW y \in BodyBlocks, CleanBlock(y),
         NodesIn(y) \cap NodesSeq(s) = {}, NEW p \in 1..(Len(s) + 1)
  PROVE  /\ InsertAt(s, p, y) \in Seq(BodyBlocks)
         /\ CleanBlocks(InsertAt(s, p, y))
         /\ \A k \in Kinds : OfSeq(k, InsertAt(s, p, y)) = OfSeq(k, s) \cup OfKind(k, y)
<1>1. PICK u : u = Append(s, y)
  OBVIOUS
<1>2. PICK t : t = InsertAt(s, p, y)
  OBVIOUS
<1>3. /\ u \in Seq(BodyBlocks) /\ CleanBlocks(u)
      /\ \A k \in Kinds : OfSeq(k, u) = OfSeq(k, s) \cup OfKind(k, y)
  BY <1>1, BlockAppended
<1>4. t \in Seq(BodyBlocks)
  BY <1>2, InsertedAt
<1>5. DOMAIN u = 1..(Len(s) + 1)
  BY <1>1, <1>3, AppendProperties, LenProperties
<1>6. Draws(t, u, DOMAIN u)
  <2>1. Draws(InsertAt(s, p, y), Append(s, y), 1..(Len(s) + 1))
    BY InsertedDrawn
  <2> QED BY <2>1, <1>1, <1>2, <1>5
<1>7. PICK I \in SUBSET DOMAIN u : I = DOMAIN u
  OBVIOUS
<1>8. CleanBlocks(t) /\ \A k \in Kinds : OfSeq(k, t) = UNION {OfKind(k, u[c]) : c \in I}
  <2>1. Draws(t, u, I)
    BY <1>6, <1>7
  <2> QED BY <2>1, <1>3, <1>4, BlocksDrawn
<1>9. \A k \in Kinds : OfSeq(k, t) = OfSeq(k, u)
  BY <1>7, <1>8 DEF OfSeq
<1> QED BY <1>2, <1>3, <1>4, <1>8, <1>9

\* A block is removed.
LEMMA BlockRemoved ==
  ASSUME NEW s \in Seq(BodyBlocks), CleanBlocks(s), NEW p \in DOMAIN s
  PROVE  /\ RemoveAt(s, p) \in Seq(BodyBlocks)
         /\ CleanBlocks(RemoveAt(s, p))
         /\ \A k \in Kinds : OfSeq(k, RemoveAt(s, p)) = OfSeq(k, s) \ OfKind(k, s[p])
         /\ NodesSeq(RemoveAt(s, p)) = NodesSeq(s) \ NodesIn(s[p])
<1>1. PICK t : t = RemoveAt(s, p)
  OBVIOUS
<1>2. DOMAIN s = 1..Len(s)
  BY LenProperties
<1>3. PICK I \in SUBSET DOMAIN s : I = DOMAIN s \ {p}
  OBVIOUS
<1>4. t \in Seq(BodyBlocks) /\ Draws(t, s, I)
  BY <1>1, <1>2, <1>3, RemovedAt, RemovedDrawn
<1>5. CleanBlocks(t) /\ \A k \in Kinds : OfSeq(k, t) = UNION {OfKind(k, s[c]) : c \in I}
  BY <1>4, BlocksDrawn
<1>6. ASSUME NEW c \in I
      PROVE  NodesIn(s[c]) \cap NodesIn(s[p]) = {}
  BY <1>3 DEF CleanBlocks
<1>7. ASSUME NEW k \in Kinds
      PROVE  OfSeq(k, t) = OfSeq(k, s) \ OfKind(k, s[p])
  <2>1. \A c \in I : OfKind(k, s[c]) \cap OfKind(k, s[p]) = {}
    BY <1>6, KindsOfBlock
  <2>2. OfSeq(k, t) = UNION {OfKind(k, s[c]) : c \in I}
    BY <1>5
  <2>3. OfSeq(k, s) = (UNION {OfKind(k, s[c]) : c \in I}) \cup OfKind(k, s[p])
    BY <1>3 DEF OfSeq
  <2> QED BY <2>1, <2>2, <2>3
<1>8. NodesSeq(t) = NodesSeq(s) \ NodesIn(s[p])
  <2>1. ASSUME NEW n \in NodesSeq(t)
        PROVE  n \in NodesSeq(s) \ NodesIn(s[p])
    <3>1. PICK k \in Kinds : n \in OfSeq(k, t)
      BY <2>1, KindsOfSeq
    <3>2. PICK c \in I : n \in OfKind(k, s[c])
      BY <1>5, <3>1
    <3>3. n \in NodesIn(s[c])
      BY <3>2, KindsOfBlock
    <3> QED BY <1>6, <3>3 DEF NodesSeq
  <2>2. ASSUME NEW n \in NodesSeq(s), n \notin NodesIn(s[p])
        PROVE  n \in NodesSeq(t)
    <3>1. PICK c \in I : n \in NodesIn(s[c])
      BY <1>3, <2>2 DEF NodesSeq
    <3>2. PICK k \in Kinds : n \in OfKind(k, s[c])
      BY <3>1, KindsOfBlock
    <3>3. n \in OfSeq(k, t)
      BY <1>5, <3>2
    <3> QED BY <3>3, KindsOfSeq
  <2> QED BY <2>1, <2>2
<1> QED BY <1>1, <1>4, <1>5, <1>7, <1>8

-----------------------------------------------------------------------------
(* Creation. *)

InsTemplates == [op : Opcodes, d : Operands, u : Operands, w : Operands, l : Seq(LiveNodes)]

\* What Changed adds to a body with other blocks.
LEMMA ChangedForm ==
  ASSUME NEW f \in Bodies(Logs), NEW s, NEW more, NEW cfg \in BOOLEAN
  PROVE  Changed([f EXCEPT !.blocks = s, !.gen = @ + more], cfg) = Published(f, s, more, f.erased, cfg)
<1>1. PICK h : h = [f EXCEPT !.blocks = s, !.gen = f.gen + more]
  OBVIOUS
<1>2. h = [blocks |-> s, regs |-> f.regs, backed |-> f.backed, data |-> f.data, gen |-> f.gen + more,
           tracks |-> f.tracks, erased |-> f.erased, rev |-> f.rev]
  BY <1>1 DEF Bodies
<1>3. f.rev \in [i : Nat, c : Nat, r : Nat]
  BY DEF Bodies
<1>4. PICK v : v = [i |-> f.rev.i + 1, c |-> IF cfg THEN f.rev.c + 1 ELSE f.rev.c, r |-> f.rev.r]
  OBVIOUS
<1>5. [f.rev EXCEPT !.i = @ + 1, !.c = IF cfg THEN @ + 1 ELSE @] = v
  <2>1. PICK r \in [i : Nat, c : Nat, r : Nat] : r = f.rev
    BY <1>3
  <2>2. PICK c : c = IF cfg THEN r.c + 1 ELSE r.c
    OBVIOUS
  <2>3. PICK x : x = r.i + 1
    OBVIOUS
  <2>4. PICK w : w = [r EXCEPT !.i = x, !.c = c]
    OBVIOUS
  <2>5. w = [i |-> w.i, c |-> w.c, r |-> w.r]
    BY <2>1, <2>4
  <2>6. w.i = x /\ w.c = c /\ w.r = r.r
    BY <2>1, <2>4
  <2> QED BY <1>4, <2>1, <2>2, <2>3, <2>4, <2>5, <2>6
<1>6. [h EXCEPT !.rev.i = @ + 1, !.rev.c = IF cfg THEN @ + 1 ELSE @] = [h EXCEPT !.rev = v]
  BY <1>2, <1>3, <1>5
<1>7. Changed(h, cfg) = [h EXCEPT !.rev = v]
  BY <1>6 DEF Changed
<1>8. [h EXCEPT !.rev = v] = Published(f, s, more, f.erased, cfg)
  BY <1>2, <1>4 DEF Published
<1> QED BY <1>1, <1>7, <1>8

\* Copies, address operations and the like leave the graph alone.
LEMMA AffectsBoolean ==
  ASSUME NEW op
  PROVE  AffectsCfg(op) \in BOOLEAN
  BY DEF AffectsCfg

\* The edits of the blocks in published form.
LEMMA CreateBlockForm ==
  ASSUME NEW f \in Bodies(Logs), NEW place, NEW scope
  PROVE  CreateBlock(f, place, scope) = Published(f, InsertAt(f.blocks, place, Block(NewNode(f), scope)), 1, f.erased, TRUE)
<1>1. PICK s : s = InsertAt(f.blocks, place, Block(NewNode(f), scope))
  OBVIOUS
<1>2. CreateBlock(f, place, scope) = Changed([f EXCEPT !.blocks = s, !.gen = @ + 1], TRUE)
  BY <1>1 DEF CreateBlock
<1>3. Changed([f EXCEPT !.blocks = s, !.gen = @ + 1], TRUE) = Published(f, s, 1, f.erased, TRUE)
  BY ChangedForm
<1> QED BY <1>1, <1>2, <1>3

\* A new label, as a publication.
LEMMA CreateLabelForm ==
  ASSUME NEW f \in Bodies(Logs), NEW b \in DOMAIN f.blocks
  PROVE  CreateLabel(f, b)
         = Published(f, WithLabs(f.blocks, b, Append(f.blocks[b].labels, NewNode(f))), 1, f.erased, TRUE)
<1>1. PICK n : n = NewNode(f)
  OBVIOUS
<1>2. CreateLabel(f, b) = Changed([f EXCEPT !.blocks[b].labels = Append(@, n), !.gen = @ + 1], TRUE)
  BY <1>1 DEF CreateLabel
<1>3. PICK s : s = WithLabs(f.blocks, b, Append(f.blocks[b].labels, n))
  OBVIOUS
<1>4. [f EXCEPT !.blocks[b].labels = Append(@, n), !.gen = @ + 1] = [f EXCEPT !.blocks = s, !.gen = @ + 1]
  BY <1>3 DEF WithLabs
<1>5. Changed([f EXCEPT !.blocks = s, !.gen = @ + 1], TRUE) = Published(f, s, 1, f.erased, TRUE)
  BY ChangedForm
<1> QED BY <1>1, <1>2, <1>3, <1>4, <1>5

\* A new instruction, as a publication.
LEMMA PlaceForm ==
  ASSUME NEW f \in Bodies(Logs), NEW b \in DOMAIN f.blocks, NEW place, NEW t
  PROVE  PlaceInstruction(f, b, place, t)
         = Published(f, WithIns(f.blocks, b, InsertAt(f.blocks[b].ins, place, WithNode(t, NewNode(f)))), 1, f.erased,
                     AffectsCfg(t.op))
<1>1. PICK i : i = WithNode(t, NewNode(f))
  OBVIOUS
<1>2. PICK c : c = AffectsCfg(t.op)
  OBVIOUS
<1>3. PlaceInstruction(f, b, place, t) = Changed([f EXCEPT !.blocks[b].ins = InsertAt(@, place, i), !.gen = @ + 1], c)
  BY <1>1, <1>2 DEF PlaceInstruction
<1>4. PICK s : s = WithIns(f.blocks, b, InsertAt(f.blocks[b].ins, place, i))
  OBVIOUS
<1>5. [f EXCEPT !.blocks[b].ins = InsertAt(@, place, i), !.gen = @ + 1] = [f EXCEPT !.blocks = s, !.gen = @ + 1]
  BY <1>4 DEF WithIns
<1>6. Changed([f EXCEPT !.blocks = s, !.gen = @ + 1], c) = Published(f, s, 1, f.erased, c)
  BY <1>2, AffectsBoolean, ChangedForm
<1> QED BY <1>1, <1>2, <1>3, <1>4, <1>5, <1>6

\* A new block grows the body, and is where it was put.
LEMMA CreateBlockGrows ==
  ASSUME NEW f, Good(f), NEW place \in 1..(Len(f.blocks) + 1), NEW scope \in {0, 1}
  PROVE  /\ Grows(f, CreateBlock(f, place, scope))
         /\ InsertedAs(CreateBlock(f, place, scope).blocks, f.blocks, place, Block(NewNode(f), scope))
         /\ NewNode(f) \in OfBody("block", CreateBlock(f, place, scope))
<1> DEFINE y == Block(NewNode(f), scope)
           s == InsertAt(f.blocks, place, y)
<1>1. f \in Bodies(Logs) /\ f.blocks \in Seq(BodyBlocks) /\ CleanBlocks(f.blocks)
  BY GoodBlocks DEF Good
<1>2. NewNode(f) \in LiveNodes /\ NewNode(f) \notin Nodes(f)
  BY NewNodeFresh
<1>3. PICK n : n = NewNode(f)
  OBVIOUS
<1>4. y \in BodyBlocks /\ CleanBlock(y) /\ \A k \in Kinds : OfKind(k, y) = IF k = "block" THEN {n} ELSE {}
  <2>1. y = [n |-> n, labels |-> <<>>, ins |-> <<>>, scope |-> scope]
    BY <1>3 DEF Block
  <2>2. y \in BodyBlocks
    BY <1>2, <1>3, <2>1 DEF BodyBlocks
  <2>3. OfKind("block", y) = {n} /\ OfKind("label", y) = {} /\ OfKind("ins", y) = {}
    BY <2>1 DEF OfKind, Range
  <2>4. \A k \in Kinds : OfKind(k, y) = IF k = "block" THEN {n} ELSE {}
    BY <2>3 DEF Kinds
  <2>5. CleanBlock(y)
    BY <2>1, <2>4 DEF CleanBlock
  <2> QED BY <2>2, <2>4, <2>5
<1>5. NodesIn(y) \cap NodesSeq(f.blocks) = {}
  <2>1. \A m \in NodesIn(y) : m = n
    BY <1>4, KindsOfBlock
  <2> QED BY <1>2, <1>3, <2>1, BodyNodes
<1> HIDE DEF y
<1>6. /\ s \in Seq(BodyBlocks) /\ CleanBlocks(s)
      /\ \A k \in Kinds : OfSeq(k, s) = OfSeq(k, f.blocks) \cup OfKind(k, y)
  BY <1>1, <1>4, <1>5, BlockInserted
<1>7. InsertedAs(s, f.blocks, place, y)
  BY <1>1, <1>4, InsertedAt
<1> HIDE DEF s
<1>8. \A k \in Kinds : OfSeq(k, s) = OfSeq(k, f.blocks) \cup (IF k = "block" THEN {NewNode(f)} ELSE {})
  BY <1>3, <1>4, <1>6
<1>9. "block" \in Kinds
  BY DEF Kinds
<1>10. Grows(f, Published(f, s, 1, f.erased, TRUE))
  BY <1>6, <1>8, <1>9, PublishedMore
<1>11. CreateBlock(f, place, scope) = Published(f, s, 1, f.erased, TRUE)
  BY <1>1, CreateBlockForm DEF s, y
<1>12. CreateBlock(f, place, scope).blocks = s
  BY <1>11 DEF Published
<1>13. NewNode(f) \in OfBody("block", CreateBlock(f, place, scope))
  BY <1>8, <1>9, <1>12, BodyNodes
<1> QED BY <1>7, <1>10, <1>11, <1>12, <1>13 DEF y

\* A new label grows the body, and is one of it.
LEMMA CreateLabelGrows ==
  ASSUME NEW f, Good(f), NEW b \in DOMAIN f.blocks
  PROVE  LET g == CreateLabel(f, b)
         IN  /\ Grows(f, g)
             /\ DOMAIN g.blocks = DOMAIN f.blocks /\ g.regs = f.regs
             /\ \A c \in DOMAIN f.blocks : g.blocks[c].ins = f.blocks[c].ins /\ g.blocks[c].n = f.blocks[c].n
             /\ Last(g.blocks[b].labels) = NewNode(f)
             /\ NewNode(f) \in OfBody("label", g)
<1> DEFINE old == f.blocks[b].labels
           t == Append(old, NewNode(f))
           s == WithLabs(f.blocks, b, t)
<1>1. f \in Bodies(Logs) /\ f.blocks \in Seq(BodyBlocks) /\ CleanBlocks(f.blocks)
  BY GoodBlocks DEF Good
<1>2. NewNode(f) \in LiveNodes /\ NewNode(f) \notin NodesSeq(f.blocks)
  BY NewNodeFresh, BodyNodes
<1>3. /\ f.blocks[b] \in BodyBlocks /\ CleanBlock(f.blocks[b]) /\ old \in Seq(LiveNodes)
      /\ Len(old) \in Nat /\ DOMAIN old = 1..Len(old)
  BY GoodBlocks
<1>4. "label" \in Kinds
  BY DEF Kinds
<1>5. Range(old) = OfKind("label", f.blocks[b])
  BY DEF OfKind
<1>6. OfKind("label", f.blocks[b]) \subseteq OfSeq("label", f.blocks) /\ NewNode(f) \notin OfKind("label", f.blocks[b])
  BY <1>2, <1>4, KindsOfSeq DEF OfSeq
<1>7. PICK n : n = NewNode(f)
  OBVIOUS
<1>8. /\ t \in Seq(LiveNodes) /\ Len(t) = Len(old) + 1 /\ DOMAIN t = 1..(Len(old) + 1)
      /\ t[Len(old) + 1] = n
      /\ \A i \in DOMAIN old : t[i] = old[i]
  BY <1>2, <1>3, <1>7, AppendProperties, LenProperties
<1> HIDE DEF t
<1>9. \A i \in DOMAIN t : i \in DOMAIN old \/ i = Len(old) + 1
  BY <1>3, <1>8
<1>10. Range(t) = OfKind("label", f.blocks[b]) \cup {n}
  <2>1. Len(old) + 1 \in DOMAIN t /\ \A i \in DOMAIN old : i \in DOMAIN t
    BY <1>3, <1>8
  <2>2. Range(t) = Range(old) \cup {n}
    BY <1>8, <1>9, <2>1 DEF Range
  <2> QED BY <1>5, <2>2
<1>11. \A i, j \in DOMAIN t : t[i] = t[j] => i = j
  <2>1. \A i \in DOMAIN old : old[i] # n
    BY <1>5, <1>6, <1>7 DEF Range
  <2>2. \A i, j \in DOMAIN old : old[i] = old[j] => i = j
    BY <1>3 DEF CleanBlock
  <2> QED BY <1>8, <1>9, <2>1, <2>2
<1> HIDE DEF old
<1>12. OneKindChanged(s, f.blocks, b, [f.blocks[b] EXCEPT !.labels = t], "label", Range(t))
  <2>1. PICK X : X = {n}
    OBVIOUS
  <2>2. Range(t) \subseteq OfKind("label", f.blocks[b]) \cup X /\ X \cap NodesSeq(f.blocks) = {}
    BY <1>2, <1>7, <1>10, <2>1
  <2> QED BY <1>1, <1>8, <1>11, <2>2, LabsChanged
<1> HIDE DEF s
<1>13. \A k \in Kinds : OfSeq(k, s) = OfSeq(k, f.blocks) \cup (IF k = "label" THEN {NewNode(f)} ELSE {})
  <2>1. OfSeq("label", s) = OfSeq("label", f.blocks) \cup {n}
    BY <1>6, <1>10, <1>12 DEF OneKindChanged
  <2> QED BY <1>7, <1>12, <2>1 DEF OneKindChanged
<1>14. Grows(f, Published(f, s, 1, f.erased, TRUE))
  BY <1>4, <1>12, <1>13, PublishedMore DEF OneKindChanged
<1>15. CreateLabel(f, b) = Published(f, s, 1, f.erased, TRUE)
  BY <1>1, CreateLabelForm DEF s, t, old
<1>16. CreateLabel(f, b).blocks = s /\ CreateLabel(f, b).regs = f.regs
  BY <1>15 DEF Published
<1>17. ASSUME NEW c \in DOMAIN f.blocks
       PROVE  s[c].ins = f.blocks[c].ins /\ s[c].n = f.blocks[c].n
  <2>1. CASE c = b
    <3>1. s[b] = [f.blocks[b] EXCEPT !.labels = t]
      BY <1>12 DEF OneKindChanged
    <3> QED BY <1>3, <2>1, <3>1 DEF BodyBlocks
  <2>2. CASE c # b
    BY <1>12, <2>2 DEF OneKindChanged
  <2> QED BY <2>1, <2>2
<1>18. Last(s[b].labels) = n
  <2>1. s[b] = [f.blocks[b] EXCEPT !.labels = t]
    BY <1>12 DEF OneKindChanged
  <2>2. s[b].labels = t
    BY <1>3, <2>1 DEF BodyBlocks
  <2> QED BY <1>8, <2>2 DEF Last
<1>19. NewNode(f) \in OfBody("label", CreateLabel(f, b))
  BY <1>4, <1>13, <1>16, BodyNodes
<1>20. DOMAIN s = DOMAIN f.blocks
  BY <1>12 DEF OneKindChanged
<1> QED BY <1>7, <1>14, <1>15, <1>16, <1>17, <1>18, <1>19, <1>20

\* A new instruction grows the body.
LEMMA PlaceGrows ==
  ASSUME NEW f, Good(f), NEW b \in DOMAIN f.blocks, NEW place \in 1..(Len(f.blocks[b].ins) + 1), NEW t \in InsTemplates
  PROVE  LET g == PlaceInstruction(f, b, place, t)
         IN  /\ Grows(f, g) /\ DOMAIN g.blocks = DOMAIN f.blocks /\ g.regs = f.regs
             /\ OfBody("label", g) = OfBody("label", f)
             /\ g.blocks[b].ins = InsertAt(f.blocks[b].ins, place, WithNode(t, NewNode(f)))
<1> DEFINE e == WithNode(t, NewNode(f))
           u == InsertAt(f.blocks[b].ins, place, e)
           s == WithIns(f.blocks, b, u)
<1>1. f \in Bodies(Logs) /\ f.blocks \in Seq(BodyBlocks) /\ CleanBlocks(f.blocks)
  BY GoodBlocks DEF Good
<1>2. NewNode(f) \in LiveNodes /\ NewNode(f) \notin NodesSeq(f.blocks)
  BY NewNodeFresh, BodyNodes
<1>3. /\ f.blocks[b].ins \in Seq(Instructions) /\ Distinct(f.blocks[b].ins)
      /\ InsNodes(f.blocks[b].ins) = OfKind("ins", f.blocks[b])
  BY GoodBlocks
<1>4. e \in Instructions /\ e.n = NewNode(f)
  BY <1>2 DEF WithNode, Instructions, InsTemplates
<1>5. "ins" \in Kinds
  BY DEF Kinds
<1>6. OfKind("ins", f.blocks[b]) \subseteq OfSeq("ins", f.blocks) /\ NewNode(f) \notin OfKind("ins", f.blocks[b])
  BY <1>2, <1>5, KindsOfSeq DEF OfSeq
<1>7. PICK n : n = NewNode(f)
  OBVIOUS
<1> HIDE DEF e
<1>8. u \in Seq(Instructions) /\ Distinct(u) /\ InsNodes(u) = OfKind("ins", f.blocks[b]) \cup {n}
  BY <1>3, <1>4, <1>6, <1>7, InstructionInserted
<1> HIDE DEF u
<1>9. OneKindChanged(s, f.blocks, b, [f.blocks[b] EXCEPT !.ins = u], "ins", InsNodes(u))
  <2>1. PICK X : X = {n}
    OBVIOUS
  <2>2. InsNodes(u) \subseteq OfKind("ins", f.blocks[b]) \cup X /\ X \cap NodesSeq(f.blocks) = {}
    BY <1>2, <1>7, <1>8, <2>1
  <2> QED BY <1>1, <1>8, <2>2, InsChanged
<1> HIDE DEF s
<1>10. \A k \in Kinds : OfSeq(k, s) = OfSeq(k, f.blocks) \cup (IF k = "ins" THEN {NewNode(f)} ELSE {})
  <2>1. OfSeq("ins", s) = OfSeq("ins", f.blocks) \cup {n}
    BY <1>6, <1>8, <1>9 DEF OneKindChanged
  <2> QED BY <1>7, <1>9, <2>1 DEF OneKindChanged
<1>11. PICK c : c = AffectsCfg(t.op)
  OBVIOUS
<1>12. Grows(f, Published(f, s, 1, f.erased, c))
  BY <1>5, <1>9, <1>10, PublishedMore DEF OneKindChanged
<1>13. PlaceInstruction(f, b, place, t) = Published(f, s, 1, f.erased, c)
  BY <1>1, <1>11, PlaceForm DEF s, u, e
<1>14. Published(f, s, 1, f.erased, c).blocks = s /\ Published(f, s, 1, f.erased, c).regs = f.regs
  BY DEF Published
<1>15. s[b].ins = u
  <2>1. s[b] = [f.blocks[b] EXCEPT !.ins = u] /\ f.blocks[b] \in BodyBlocks
    BY <1>9, GoodBlocks DEF OneKindChanged
  <2> QED BY <2>1 DEF BodyBlocks
<1>16. OfSeq("label", s) = OfSeq("label", f.blocks)
  BY <1>9 DEF OneKindChanged, Kinds
<1>17. PICK g : g = Published(f, s, 1, f.erased, c)
  OBVIOUS
<1>18. /\ Grows(f, g) /\ DOMAIN g.blocks = DOMAIN f.blocks /\ g.regs = f.regs
       /\ OfBody("label", g) = OfBody("label", f)
       /\ g.blocks[b].ins = u
  BY <1>9, <1>12, <1>14, <1>15, <1>16, <1>17, BodyNodes DEF OneKindChanged
<1> QED BY <1>13, <1>17, <1>18 DEF u, e

-----------------------------------------------------------------------------
(* Recursion one step at a time. *)

ByOne(N, Z, base, step) == N \in Nat /\ base \in Z /\ step \in [(1..N) \X Z -> Z]

SolvedBy(g, N, Z, base, step) == g \in [0..N -> Z] /\ g[0] = base /\ \A n \in 1..N : g[n] = step[<<n, g[n - 1]>>]

\* Such a recursion has a solution.
LEMMA RecursionByOne ==
  ASSUME NEW N, NEW Z, NEW base, NEW step, ByOne(N, Z, base, step)
  PROVE  \E g : SolvedBy(g, N, Z, base, step)
<1> DEFINE before == [n \in 1..N |-> n - 1]
<1>1. N \in Nat /\ base \in Z /\ step \in [(1..N) \X Z -> Z]
  BY DEF ByOne
<1>2. before \in [1..N -> Nat] /\ (\A n \in 1..N : before[n] < n) /\ \A n \in 1..N : before[n] = n - 1
  BY <1>1
<1> HIDE DEF before
<1>3. Recursion(N, Z, base, before, step)
  BY <1>1, <1>2 DEF Recursion
<1>4. PICK g : Solves(g, N, Z, base, before, step)
  BY <1>3, RecursionExists
<1>5. SolvedBy(g, N, Z, base, step)
  BY <1>2, <1>4 DEF Solves, SolvedBy
<1> QED BY <1>5

\* What holds at the start and is kept by every step holds at the end.
LEMMA StaysIn ==
  ASSUME NEW N \in Nat, NEW Z, NEW f, f[0] \in Z, \A n \in 1..N : f[n - 1] \in Z => f[n] \in Z
  PROVE  f[N] \in Z
<1> DEFINE P == {n \in 0..N : f[n] \in Z}
<1>1. 0 \in P
  OBVIOUS
<1>2. ASSUME NEW n \in 0..(N - 1), n \in P
      PROVE  n + 1 \in P
  <2>1. n + 1 \in 1..N /\ (n + 1) - 1 = n /\ n + 1 \in 0..N
    OBVIOUS
  <2> QED BY <1>2, <2>1
<1>3. \A n \in 0..(N - 1) : n \in P => n + 1 \in P
  BY <1>2
<1> HIDE DEF P
<1>4. 0..N \subseteq P
  BY <1>1, <1>3, CountsUp
<1> QED BY <1>4 DEF P

-----------------------------------------------------------------------------
(* Results of calls. *)

\* A call changes the body as it may, and not at all when it refuses.
Sound(f, r) == Evolves(f, r.f) /\ r.ok \in BOOLEAN /\ (~r.ok => r.f = f)

\* Or it leaves a load when it refuses.
SoundOrLoad(f, r) ==
  Evolves(f, r.f) /\ r.ok \in BOOLEAN /\ (~r.ok => Written(r.f) = Written(f) \/ LoadLeft(f, r.f))

\* Nothing changes when a call refuses.
LEMMA RefusedSound ==
  ASSUME NEW f, Good(f)
  PROVE  Sound(f, Refused(f))
<1>1. Refused(f).f = f /\ Refused(f).ok = FALSE
  BY DEF Refused
<1> QED BY <1>1, GrowsSame DEF Sound, Evolves

\* What a call has done.
LEMMA DoneSound ==
  ASSUME NEW f, NEW g, Evolves(f, g)
  PROVE  Sound(f, Done(g))
<1>1. Done(g).f = g /\ Done(g).ok = TRUE
  BY DEF Done
<1> QED BY <1>1 DEF Sound

\* A call that adds.
LEMMA DoneGrows ==
  ASSUME NEW f, NEW g, Grows(f, g)
  PROVE  Sound(f, Done(g))
  BY DoneSound DEF Evolves

\* A call that finds nothing to do.
LEMMA DoneSame ==
  ASSUME NEW f, Good(f)
  PROVE  Sound(f, Done(f))
  BY GrowsSame, DoneGrows

WithRegs(f, rs, count) == [f EXCEPT !.regs = @ \cup rs, !.rev.r = @ + count]

\* More registers, and a revision of them that does not go back.
LEMMA MoreRegisters ==
  ASSUME NEW f, Good(f), NEW rs \in SUBSET Registers, NEW count \in Nat
  PROVE  LET g == WithRegs(f, rs, count)
         IN  Grows(f, g) /\ g.blocks = f.blocks /\ g.regs = f.regs \cup rs
<1> DEFINE g == [f EXCEPT !.regs = @ \cup rs, !.rev.r = @ + count]
<1>1. f \in Bodies(Logs) /\ f.gen \in Nat /\ f.rev \in [i : Nat, c : Nat, r : Nat]
  BY DEF Good, Bodies
<1>2. PICK v : v = [f.rev EXCEPT !.r = @ + count]
  OBVIOUS
<1>3. v \in [i : Nat, c : Nat, r : Nat] /\ v.i = f.rev.i
  BY <1>1, <1>2
<1>4. g = [f EXCEPT !.regs = @ \cup rs, !.rev = v]
  BY <1>1, <1>2
<1>5. /\ g \in Bodies(Logs) /\ g.blocks = f.blocks /\ g.gen = f.gen /\ g.rev = v
      /\ g.erased = f.erased /\ g.tracks = f.tracks /\ g.regs = f.regs \cup rs
  <2> HIDE DEF g
  <2>1. PICK R : R = f.regs \cup rs
    OBVIOUS
  <2>2. R \in SUBSET Registers
    BY <1>1, <2>1 DEF Bodies
  <2>3. g = [f EXCEPT !.regs = R, !.rev = v]
    BY <1>4, <2>1
  <2>4. /\ g \in Bodies(Logs) /\ g.blocks = f.blocks /\ g.gen = f.gen /\ g.rev = v
        /\ g.erased = f.erased /\ g.tracks = f.tracks
    BY <1>1, <1>3, <2>2, <2>3 DEF Bodies
  <2>5. g.regs = R
    BY <1>1, <2>3 DEF Bodies
  <2> QED BY <2>1, <2>4, <2>5
<1> HIDE DEF g
<1>6. CleanBlocks(f.blocks) /\ f.rev.i <= g.rev.i
  BY <1>1, <1>3, <1>5, GoodBlocks
<1>7. CleanBlocks(g.blocks) /\ \A k \in Kinds : OfSeq(k, g.blocks) = OfSeq(k, f.blocks)
  BY <1>5, <1>6
<1>8. Grows(f, g)
  BY <1>5, <1>6, <1>7, SameNodes
<1> QED BY <1>5, <1>8 DEF g, WithRegs

\* A register is made, or there is one of that name.
LEMMA CreateRegisterSound ==
  ASSUME NEW f, Good(f), NEW r \in Registers
  PROVE  /\ Sound(f, CreateRegister(f, r))
         /\ Grows(f, CreateRegister(f, r).f) /\ CreateRegister(f, r).f.blocks = f.blocks
         /\ f.regs \subseteq CreateRegister(f, r).f.regs
<1>1. CASE r \in f.regs
  <2>1. CreateRegister(f, r) = Refused(f) /\ Refused(f).f = f
    BY <1>1 DEF CreateRegister, Refused
  <2> QED BY <2>1, RefusedSound, GrowsSame
<1>2. CASE r \notin f.regs
  <2> DEFINE g == [f EXCEPT !.regs = @ \cup {r}, !.rev.r = @ + 1]
  <2>1. CreateRegister(f, r) = Done(RegistersChanged([f EXCEPT !.regs = @ \cup {r}]))
    BY <1>2 DEF CreateRegister
  <2>2. RegistersChanged([f EXCEPT !.regs = @ \cup {r}]) = g
    BY DEF RegistersChanged, Good, Bodies
  <2>3. Grows(f, g) /\ g.blocks = f.blocks /\ g.regs = f.regs \cup {r}
    <3>1. PICK rs \in SUBSET Registers : rs = {r}
      OBVIOUS
    <3>2. PICK count \in Nat : count = 1
      OBVIOUS
    <3>3. PICK h : h = WithRegs(f, rs, count)
      OBVIOUS
    <3>4. Grows(f, h) /\ h.blocks = f.blocks /\ h.regs = f.regs \cup rs
      BY <3>3, MoreRegisters
    <3>5. h = g
      BY <3>1, <3>2, <3>3 DEF WithRegs
    <3> HIDE DEF g
    <3> QED BY <3>1, <3>4, <3>5
  <2> HIDE DEF g
  <2>4. CreateRegister(f, r) = Done(g) /\ Done(g).f = g
    BY <2>1, <2>2 DEF Done
  <2> QED BY <2>3, <2>4, DoneGrows
<1> QED BY <1>1, <1>2

-----------------------------------------------------------------------------
(* Calls that write instructions. *)

\* EmitAt: an instruction at the end of a block.
LEMMA EmitSound ==
  ASSUME NEW f, Good(f), NEW b \in DOMAIN f.blocks, NEW t \in InsTemplates
  PROVE  Sound(f, EmitAt(f, b, t)) /\ Grows(f, EmitAt(f, b, t).f)
<1>1. PICK p : p = Len(f.blocks[b].ins) + 1
  OBVIOUS
<1>2. p \in 1..(Len(f.blocks[b].ins) + 1)
  BY <1>1, GoodBlocks
<1>3. Grows(f, PlaceInstruction(f, b, p, t))
  BY <1>2, PlaceGrows
<1>4. EmitAt(f, b, t) = Refused(f) \/ EmitAt(f, b, t) = Done(PlaceInstruction(f, b, p, t))
  BY <1>1 DEF EmitAt
<1>5. Refused(f).f = f /\ Done(PlaceInstruction(f, b, p, t)).f = PlaceInstruction(f, b, p, t)
  BY DEF Refused, Done
<1> QED BY <1>3, <1>4, <1>5, RefusedSound, DoneGrows, GrowsSame

\* An instruction of one or no register, and the form of the operand it writes.
LEMMA InsnTyped ==
  ASSUME NEW op \in Opcodes, NEW d \in Operands, NEW u \in Operands, NEW l \in Seq(LiveNodes)
  PROVE  /\ Insn(op, d, u, l) \in InsTemplates
         /\ Insn(op, d, u, l).d = d /\ Insn(op, d, u, l).op = op
<1>1. NoReg \in Operands
  BY DEF Operands
<1>2. Insn(op, d, u, l) = [op |-> op, d |-> d, u |-> u, w |-> NoReg, l |-> l]
  BY DEF Insn, Insn2
<1> QED BY <1>1, <1>2 DEF InsTemplates

\* What labels a body has.
LEMMA LabelsOfBody ==
  ASSUME NEW f
  PROVE  Labels(f) = OfBody("label", f)
  BY DEF Labels, OfBody, OfKind

\* An operation that is written ends the block, and keeps labels and registers.
Appended(f, g, b, t) ==
  /\ Labels(g) = Labels(f) /\ f.regs \subseteq g.regs
  /\ g.blocks[b].ins # <<>> /\ Last(g.blocks[b].ins).op = t.op

\* ValueOperation: a register and the instruction that writes it.
LEMMA ValueSound ==
  ASSUME NEW f, Good(f), NEW b \in DOMAIN f.blocks, NEW t \in InsTemplates, t.d \in Registers
  PROVE  /\ Sound(f, ValueOperation(f, b, t)) /\ Grows(f, ValueOperation(f, b, t).f)
         /\ DOMAIN ValueOperation(f, b, t).f.blocks = DOMAIN f.blocks
         /\ ValueOperation(f, b, t).ok => /\ ~Terminated(f.blocks[b])
                                          /\ Appended(f, ValueOperation(f, b, t).f, b, t)
<1> DEFINE s == f.blocks[b].ins
<1>1. PICK p : p = Len(s) + 1
  OBVIOUS
<1>2. PICK h : h = CreateRegister(f, t.d).f
  OBVIOUS
<1>3. Grows(f, h) /\ h.blocks = f.blocks /\ f.regs \subseteq h.regs
  BY <1>2, CreateRegisterSound
<1>4. Good(h)
  BY <1>3 DEF Grows
<1>5. p \in 1..(Len(h.blocks[b].ins) + 1) /\ b \in DOMAIN h.blocks /\ s \in Seq(Instructions) /\ p \in 1..(Len(s) + 1)
  BY <1>1, <1>3, GoodBlocks
<1>6. PICK g : g = PlaceInstruction(h, b, p, t)
  OBVIOUS
<1>7. /\ Grows(h, g) /\ DOMAIN g.blocks = DOMAIN h.blocks /\ g.regs = h.regs
      /\ OfBody("label", g) = OfBody("label", h)
      /\ g.blocks[b].ins = InsertAt(h.blocks[b].ins, p, WithNode(t, NewNode(h)))
  BY <1>4, <1>5, <1>6, PlaceGrows
<1>8. Grows(f, g)
  BY <1>3, <1>7, GrowsOn
<1>9. ValueOperation(f, b, t) = Refused(f) \/ (ValueOperation(f, b, t) = Done(g) /\ ~Terminated(f.blocks[b]))
  BY <1>1, <1>2, <1>6 DEF ValueOperation
<1>10. Refused(f).f = f /\ Done(g).f = g /\ Refused(f).ok = FALSE
  BY DEF Refused, Done
<1>11. Appended(f, g, b, t)
  <2>1. Labels(g) = Labels(f)
    BY <1>3, <1>7, LabelsOfBody, BodyNodes
  <2>2. f.regs \subseteq h.regs
    BY <1>3
  <2>3. PICK e : e = WithNode(t, NewNode(h))
    OBVIOUS
  <2>4. NewNode(h) \in LiveNodes
    BY <1>4, NewNodeFresh
  <2>5. e \in Instructions /\ e.op = t.op
    BY <2>3, <2>4 DEF WithNode, Instructions, InsTemplates
  <2>6. PICK u : u = InsertAt(s, p, e)
    OBVIOUS
  <2>7. u \in Seq(Instructions) /\ InsertedAs(u, s, p, e)
    BY <1>5, <2>5, <2>6, InsertedAt
  <2>8. Len(s) \in Nat
    BY <1>5, LenProperties
  <2>9. Len(u) = p /\ u[p] = e
    BY <1>1, <2>7, <2>8 DEF InsertedAs
  <2>10. u # <<>>
    <3>1. Len(u) # 0
      BY <1>1, <2>8, <2>9
    <3> QED BY <3>1
  <2>11. Last(u) = e
    BY <2>9 DEF Last
  <2>12. g.blocks[b].ins = u
    BY <1>3, <1>7, <2>3, <2>6
  <2> HIDE DEF s
  <2> QED BY <1>7, <2>1, <2>2, <2>5, <2>10, <2>11, <2>12 DEF Appended
<1> QED BY <1>3, <1>7, <1>8, <1>9, <1>10, <1>11, RefusedSound, DoneGrows, GrowsSame

\* What a value operation that is not refused has written.
LEMMA ValueForm ==
  ASSUME NEW f, Good(f), NEW b \in DOMAIN f.blocks, NEW t \in InsTemplates, t.d \in Registers, ValueOperation(f, b, t).ok
  PROVE  LET g == ValueOperation(f, b, t).f
         IN  /\ t.d \notin f.regs /\ g.regs = f.regs \cup {t.d} /\ g.backed = f.backed
             /\ DOMAIN g.blocks = DOMAIN f.blocks
             /\ \E e \in Instructions : e.op = t.op /\ e.d = t.d /\ g.blocks[b].ins = Append(f.blocks[b].ins, e)
             /\ \A c \in DOMAIN f.blocks \ {b} : g.blocks[c] = f.blocks[c]
<1> DEFINE s == f.blocks[b].ins
<1>1. PICK p : p = Len(s) + 1
  OBVIOUS
<1>2. PICK h : h = CreateRegister(f, t.d).f
  OBVIOUS
<1>3. PICK g : g = PlaceInstruction(h, b, p, t)
  OBVIOUS
<1>4. t.d \notin f.regs /\ ValueOperation(f, b, t) = Done(g)
  BY <1>1, <1>2, <1>3 DEF ValueOperation, Refused
<1>5. f \in Bodies(Logs) /\ s \in Seq(Instructions) /\ f.blocks \in Seq(BodyBlocks) /\ f.blocks[b] \in BodyBlocks
  BY GoodBlocks DEF Good
<1>6. h.regs = f.regs \cup {t.d} /\ h.backed = f.backed /\ h.blocks = f.blocks
  <2>1. h = RegistersChanged([f EXCEPT !.regs = @ \cup {t.d}])
    BY <1>2, <1>4 DEF CreateRegister, Done
  <2> QED BY <1>5, <2>1 DEF RegistersChanged, Bodies
<1>7. Good(h)
  BY <1>2, CreateRegisterSound DEF Grows
<1>8. PICK e : e = WithNode(t, NewNode(h))
  OBVIOUS
<1>9. e \in Instructions /\ e.op = t.op /\ e.d = t.d
  <2>1. NewNode(h) \in LiveNodes
    BY <1>7, NewNodeFresh
  <2> QED BY <1>8, <2>1 DEF WithNode, Instructions, InsTemplates
<1>10. PICK u : u = InsertAt(s, p, e)
  OBVIOUS
<1>11. u = Append(s, e)
  <2>1. Len(s) \in Nat /\ p \in 1..(Len(s) + 1)
    BY <1>1, <1>5, LenProperties
  <2>2. u \in Seq(Instructions) /\ InsertedAs(u, s, p, e)
    BY <1>5, <1>9, <1>10, <2>1, InsertedAt
  <2>3. PICK v : v = Append(s, e)
    OBVIOUS
  <2>4. /\ v \in Seq(Instructions) /\ Len(v) = Len(s) + 1 /\ v[Len(s) + 1] = e
        /\ \A i \in 1..Len(s) : v[i] = s[i]
    BY <1>5, <1>9, <2>3, AppendProperties
  <2>5. Len(u) = Len(v) /\ \A i \in 1..Len(u) : u[i] = v[i]
    BY <1>1, <2>1, <2>2, <2>4 DEF InsertedAs
  <2>6. u = v
    BY <2>2, <2>4, <2>5, SeqEqual
  <2> QED BY <2>3, <2>6
<1>12. g.regs = h.regs /\ g.backed = h.backed /\ g.blocks = WithIns(f.blocks, b, u)
  <2>1. g = Published(h, WithIns(h.blocks, b, InsertAt(h.blocks[b].ins, p, e)), 1, h.erased, AffectsCfg(t.op))
    BY <1>3, <1>6, <1>7, <1>8, PlaceForm DEF Good
  <2> QED BY <1>6, <1>10, <2>1 DEF Published
<1>13. /\ DOMAIN g.blocks = DOMAIN f.blocks /\ g.blocks[b].ins = u
       /\ \A c \in DOMAIN f.blocks \ {b} : g.blocks[c] = f.blocks[c]
  BY <1>5, <1>12 DEF WithIns, BodyBlocks
<1>14. ValueOperation(f, b, t).f = g
  BY <1>4 DEF Done
<1> HIDE DEF s
<1> QED BY <1>4, <1>6, <1>9, <1>11, <1>12, <1>13, <1>14 DEF s

\* An instruction of up to two operands that are read.
LEMMA Insn2Typed ==
  ASSUME NEW op \in Opcodes, NEW d \in Operands, NEW u \in Operands, NEW w \in Operands
  PROVE  /\ Insn2(op, d, u, w, <<>>) \in InsTemplates
         /\ Insn2(op, d, u, w, <<>>).d = d /\ Insn2(op, d, u, w, <<>>).op = op
<1>1. PICK l \in Seq(LiveNodes) : l = <<>>
  BY EmptySeq
<1>2. Insn2(op, d, u, w, <<>>) = [op |-> op, d |-> d, u |-> u, w |-> w, l |-> l]
  BY <1>1 DEF Insn2
<1> QED BY <1>2 DEF InsTemplates

\* Storing a lane: the store is not refused when it was checked before the extraction.
LEMMA StoreLaneSound ==
  ASSUME NEW f, Good(f), NEW b \in DOMAIN f.blocks, NEW a \in Operands, NEW v \in Operands, NEW r \in Registers
  PROVE  Sound(f, StoreLane(f, b, a, v, r))
<1>1. "vector" \in Opcodes /\ "store" \in Opcodes /\ r \in Operands /\ NoReg \in Operands
  BY DEF Opcodes, Operands
<1>2. PICK m : m = Insn("vector", r, v, <<>>)
  OBVIOUS
<1>3. m \in InsTemplates /\ m.d = r /\ m.op = "vector"
  BY <1>1, <1>2, Insn2Typed DEF Insn
<1>4. PICK t : t = Insn("store", a, r, <<>>)
  OBVIOUS
<1>5. t \in InsTemplates
  BY <1>1, <1>4, Insn2Typed DEF Insn
<1>6. PICK first : first = ValueOperation(f, b, m)
  OBVIOUS
<1>7. /\ Grows(f, first.f) /\ DOMAIN first.f.blocks = DOMAIN f.blocks
      /\ first.ok => Appended(f, first.f, b, m)
  BY <1>3, <1>6, ValueSound
<1>8. Good(first.f) /\ b \in DOMAIN first.f.blocks
  BY <1>7 DEF Grows
<1>9. PICK e : e = EmitAt(first.f, b, t)
  OBVIOUS
<1>10. Sound(first.f, e) /\ Grows(first.f, e.f)
  BY <1>5, <1>8, <1>9, EmitSound
<1>11. CASE ~ValidInstruction(f, Insn("store", a, NoReg, <<>>)) \/ ~first.ok
  <2>1. StoreLane(f, b, a, v, r) = Refused(f)
    BY <1>2, <1>6, <1>11 DEF StoreLane
  <2> QED BY <2>1, RefusedSound
<1>12. CASE ValidInstruction(f, Insn("store", a, NoReg, <<>>)) /\ first.ok
  <2>1. StoreLane(f, b, a, v, r) = e
    BY <1>2, <1>4, <1>6, <1>9, <1>12 DEF StoreLane
  <2>2. first.f.regs = f.regs \cup {r} /\ first.f.backed = f.backed
    BY <1>3, <1>6, <1>12, ValueForm
  <2>3. ValidInstruction(first.f, t)
    <3>1. {a} \cap f.backed = {} /\ a \in f.regs \cup {NoReg}
      BY <1>12 DEF ValidInstruction, Direct, Insn, Insn2
    <3>2. Labels(first.f) = Labels(f)
      BY <1>7, <1>12 DEF Appended
    <3>3. t = [op |-> "store", d |-> a, u |-> r, w |-> NoReg, l |-> <<>>]
      BY <1>4 DEF Insn, Insn2
    <3>4. Range(t.l) \subseteq Labels(first.f)
      BY <3>3 DEF Range
    <3> QED BY <2>2, <3>1, <3>3, <3>4 DEF ValidInstruction, Direct
  <2>4. ~Terminated(first.f.blocks[b])
    BY <1>3, <1>7, <1>12 DEF Terminated, Appended, Flow
  <2>5. e.ok = TRUE
    BY <1>9, <2>3, <2>4 DEF EmitAt, Done
  <2>6. Grows(f, e.f)
    BY <1>7, <1>10, GrowsOn
  <2> QED BY <2>1, <2>5, <2>6 DEF Sound, Evolves
<1> QED BY <1>11, <1>12

\* Loading a lane: the insertion is refused only where some register lives in memory, and then the load is left.
LEMMA LoadLaneSound ==
  ASSUME NEW f, Good(f), NEW b \in DOMAIN f.blocks, NEW a \in Operands, NEW v \in f.regs \cup {NoReg},
         NEW r \in Registers, NEW d \in Registers \ f.regs, d # r
  PROVE  SoundOrLoad(f, LoadLane(f, b, a, v, r, d))
<1>1. /\ "vector" \in Opcodes /\ "load" \in Opcodes /\ r \in Operands /\ d \in Operands /\ v \in Operands
      /\ NoReg \in Operands
  BY DEF Opcodes, Operands, Good, Bodies
<1>2. PICK m : m = Insn("load", r, a, <<>>)
  OBVIOUS
<1>3. m \in InsTemplates /\ m.d = r /\ m.op = "load"
  BY <1>1, <1>2, Insn2Typed DEF Insn
<1>4. PICK k : k = Insn2("vector", d, v, r, <<>>)
  OBVIOUS
<1>5. k \in InsTemplates /\ k.d = d /\ k.op = "vector"
  BY <1>1, <1>4, Insn2Typed
<1>6. PICK loaded : loaded = ValueOperation(f, b, m)
  OBVIOUS
<1>7. /\ Grows(f, loaded.f) /\ DOMAIN loaded.f.blocks = DOMAIN f.blocks
      /\ loaded.ok => Appended(f, loaded.f, b, m)
  BY <1>3, <1>6, ValueSound
<1>8. Good(loaded.f) /\ b \in DOMAIN loaded.f.blocks
  BY <1>7 DEF Grows
<1>9. PICK i : i = ValueOperation(loaded.f, b, k)
  OBVIOUS
<1>10. Sound(loaded.f, i) /\ Grows(loaded.f, i.f)
  BY <1>5, <1>8, <1>9, ValueSound
<1>11. Evolves(f, i.f)
  BY <1>7, <1>10, GrowsOn DEF Evolves
<1>12. CASE ~loaded.ok
  <2>1. LoadLane(f, b, a, v, r, d) = Refused(f)
    BY <1>2, <1>6, <1>12 DEF LoadLane
  <2>2. Sound(f, Refused(f))
    BY RefusedSound
  <2> QED BY <2>1, <2>2 DEF Sound, SoundOrLoad
<1>13. CASE loaded.ok
  <2>1. LoadLane(f, b, a, v, r, d) = i
    BY <1>2, <1>4, <1>6, <1>9, <1>13 DEF LoadLane
  <2>2. ASSUME ~i.ok
        PROVE  LoadLeft(f, i.f)
    <3>1. i.f = loaded.f
      BY <1>10, <2>2 DEF Sound
    <3>2. /\ r \notin f.regs /\ loaded.f.regs = f.regs \cup {r} /\ loaded.f.backed = f.backed
          /\ \A c \in DOMAIN f.blocks \ {b} : loaded.f.blocks[c] = f.blocks[c]
      BY <1>3, <1>6, <1>13, ValueForm
    <3>3. PICK e \in Instructions : /\ e.op = "load" /\ e.d = r
                                    /\ loaded.f.blocks[b].ins = Append(f.blocks[b].ins, e)
      BY <1>3, <1>6, <1>13, ValueForm
    <3>4. Last(loaded.f.blocks[b].ins) = e
      <4>1. f.blocks[b].ins \in Seq(Instructions)
        BY GoodBlocks
      <4>2. PICK q \in Seq(Instructions) : q = f.blocks[b].ins
        BY <4>1
      <4>3. Len(Append(q, e)) = Len(q) + 1 /\ Append(q, e)[Len(q) + 1] = e
        BY AppendProperties
      <4> QED BY <3>3, <4>2, <4>3 DEF Last
    <3>5. f.backed # {}
      <4> SUFFICES ASSUME f.backed = {}
                   PROVE  FALSE
        OBVIOUS
      <4>1. ~Terminated(loaded.f.blocks[b])
        BY <1>3, <1>7, <1>13 DEF Terminated, Appended, Flow
      <4>2. PICK x : x = [k EXCEPT !.d = NoReg]
        OBVIOUS
      <4>3. x = [op |-> "vector", d |-> NoReg, u |-> v, w |-> r, l |-> <<>>]
        BY <1>4, <4>2 DEF Insn2
      <4>4. Range(x.l) \subseteq Labels(loaded.f)
        BY <4>3 DEF Range
      <4>5. ValidInstruction(loaded.f, x)
        BY <3>2, <4>3, <4>4 DEF ValidInstruction
      <4>6. d \notin loaded.f.regs
        BY <3>2
      <4>7. i.ok = TRUE
        BY <1>5, <1>9, <4>1, <4>2, <4>5, <4>6 DEF ValueOperation, Done
      <4> QED BY <2>2, <4>7
    <3>6. PICK g : g = loaded.f
      OBVIOUS
    <3>7. PICK l : l = Last(g.blocks[b].ins)
      OBVIOUS
    <3>8. l.op = "load" /\ l.d = r /\ g.blocks[b].ins = Append(f.blocks[b].ins, l)
      BY <3>3, <3>4, <3>6, <3>7
    <3>9. r \in Registers \ f.regs /\ g.regs = f.regs \cup {r} /\ DOMAIN g.blocks = DOMAIN f.blocks
      BY <1>7, <3>2, <3>6
    <3>10. \A c \in DOMAIN f.blocks \ {b} : g.blocks[c].ins = f.blocks[c].ins
      BY <3>2, <3>6
    <3>11. LoadLeft(f, g)
      BY <3>5, <3>7, <3>8, <3>9, <3>10, Zenon DEF LoadLeft
    <3> QED BY <3>1, <3>6, <3>11
  <2> QED BY <1>10, <1>11, <2>1, <2>2 DEF Sound, SoundOrLoad
<1> QED BY <1>12, <1>13

\* Staged instructions: all are written, each at the end of the block.
LEMMA StagedSound ==
  ASSUME NEW f, Good(f), NEW b \in DOMAIN f.blocks, NEW rs \in SUBSET Registers, Cardinality(rs) \in Nat,
         NEW ts \in Seq(InsTemplates)
  PROVE  Sound(f, Staged(f, b, rs, ts))
<1> DEFINE N == Len(ts)
           with == [f EXCEPT !.regs = @ \cup rs, !.rev.r = @ + Cardinality(rs)]
           Z == {g \in Bodies(Logs) : Grows(f, g) /\ DOMAIN g.blocks = DOMAIN f.blocks}
           Put(g, k) == PlaceInstruction(g, b, Len(g.blocks[b].ins) + 1, ts[k])
           step == [a \in (1..N) \X Z |-> Put(a[2], a[1])]
           Defines(g) == g = [k \in 0..Len(ts) |->
                                IF k = 0 THEN with
                                ELSE PlaceInstruction(g[k - 1], b, Len(g[k - 1].blocks[b].ins) + 1, ts[k])]
           placed == CHOOSE g : Defines(g)
<1>1. N \in Nat /\ \A k \in 1..N : ts[k] \in InsTemplates
  BY LenProperties, ElementOfSeq
<1>2. with \in Z
  <2>1. PICK count \in Nat : count = Cardinality(rs)
    OBVIOUS
  <2>2. PICK g : g = WithRegs(f, rs, count)
    OBVIOUS
  <2>3. Grows(f, g) /\ g.blocks = f.blocks
    BY <2>2, MoreRegisters
  <2>4. g \in Z
    BY <2>3 DEF Grows, Good
  <2>5. with = g
    BY <2>1, <2>2 DEF WithRegs
  <2> HIDE DEF Z, with
  <2> QED BY <2>4, <2>5
<1> HIDE DEF with
<1>3. ASSUME NEW g \in Z, NEW k \in 1..N
      PROVE  Put(g, k) \in Z
  <2>1. Grows(f, g) /\ DOMAIN g.blocks = DOMAIN f.blocks /\ Good(g)
    BY <1>3 DEF Grows
  <2>2. PICK p : p = Len(g.blocks[b].ins) + 1
    OBVIOUS
  <2>3. b \in DOMAIN g.blocks /\ p \in 1..(Len(g.blocks[b].ins) + 1) /\ ts[k] \in InsTemplates
    BY <1>1, <2>1, <2>2, GoodBlocks
  <2>4. PICK t \in InsTemplates : t = ts[k]
    BY <2>3
  <2>5. PICK h : h = PlaceInstruction(g, b, p, t)
    OBVIOUS
  <2>6. Grows(g, h) /\ DOMAIN h.blocks = DOMAIN g.blocks
    BY <2>1, <2>3, <2>5, PlaceGrows
  <2>7. Grows(f, h)
    BY <2>1, <2>6, GrowsOn
  <2>8. h \in Z
    BY <2>1, <2>6, <2>7 DEF Grows, Good
  <2> HIDE DEF Z
  <2> QED BY <2>2, <2>4, <2>5, <2>8
<1>4. step \in [(1..N) \X Z -> Z]
  <2> HIDE DEF Put, Z, N
  <2> QED BY <1>3
<1>5. PICK g : SolvedBy(g, N, Z, with, step)
  <2> HIDE DEF step, Z, N
  <2>1. ByOne(N, Z, with, step)
    BY <1>1, <1>2, <1>4 DEF ByOne
  <2> QED BY <2>1, RecursionByOne
<1>6. ASSUME NEW n \in 1..N
      PROVE  g[n] = Put(g[n - 1], n)
  <2>1. n - 1 \in 0..N
    BY <1>1
  <2>2. g[n - 1] \in Z
    BY <1>5, <2>1 DEF SolvedBy
  <2> HIDE DEF Z, Put, N
  <2> QED BY <1>5, <2>2 DEF SolvedBy
<1>7. Defines(g)
  <2>1. \A k \in 0..N : k = 0 \/ k \in 1..N
    BY <1>1
  <2>2. g \in [0..N -> Z] /\ g[0] = with
    BY <1>5 DEF SolvedBy
  <2> HIDE DEF Z
  <2> QED BY <1>6, <2>1, <2>2
<1>8. Defines(placed)
  <2> HIDE DEF Defines
  <2> QED BY <1>7
<1>9. placed[0] = with /\ \A n \in 1..N : placed[n] = Put(placed[n - 1], n)
  <2>1. ASSUME NEW h, Defines(h)
        PROVE  h[0] = with /\ \A n \in 1..N : h[n] = Put(h[n - 1], n)
    <3>1. \A k \in 0..N : h[k] = IF k = 0 THEN with
                                 ELSE PlaceInstruction(h[k - 1], b, Len(h[k - 1].blocks[b].ins) + 1, ts[k])
      BY <2>1, Zenon
    <3> HIDE DEF Defines
    <3> QED BY <1>1, <3>1
  <2> HIDE DEF Defines, placed
  <2> QED BY <1>8, <2>1
<1>10. placed[N] \in Z
  <2> HIDE DEF placed, Put, Z, N
  <2>1. \A n \in 1..N : placed[n - 1] \in Z => placed[n] \in Z
    BY <1>3, <1>9
  <2> QED BY <1>1, <1>2, <1>9, <2>1, StaysIn
<1>11. Staged(f, b, rs, ts) = Refused(f) \/ Staged(f, b, rs, ts) = Done(placed[N])
  BY DEF Staged, with
<1>12. Grows(f, placed[N])
  BY <1>10
<1> HIDE DEF placed, N
<1> QED BY <1>11, <1>12, RefusedSound, DoneGrows

\* InsertBefore: an instruction in front of another.
LEMMA InsertBeforeSound ==
  ASSUME NEW f, Good(f), NEW n \in OfBody("ins", f), NEW t \in InsTemplates
  PROVE  Sound(f, InsertBefore(f, n, t))
<1> DEFINE b == BlockOf(f, n)
           p == PlaceOf(f, n)
<1>1. b \in DOMAIN f.blocks /\ p \in DOMAIN f.blocks[b].ins
  BY PlaceFound
<1> HIDE DEF b, p
<1>2. p \in 1..(Len(f.blocks[b].ins) + 1)
  BY <1>1, GoodBlocks
<1>3. Grows(f, PlaceInstruction(f, b, p, t))
  BY <1>1, <1>2, PlaceGrows
<1>4. InsertBefore(f, n, t) = Refused(f) \/ InsertBefore(f, n, t) = Done(PlaceInstruction(f, b, p, t))
  BY DEF InsertBefore, b, p
<1> QED BY <1>3, <1>4, RefusedSound, DoneGrows

-----------------------------------------------------------------------------
(* Rewriting. *)

\* A change of the blocks alone, and one that logs erased nodes first.
LEMMA BlocksForm ==
  ASSUME NEW f \in Bodies(Logs), NEW s, NEW cfg \in BOOLEAN
  PROVE  Changed([f EXCEPT !.blocks = s], cfg) = Published(f, s, 0, f.erased, cfg)
<1>1. f.gen + 0 = f.gen
  BY DEF Bodies
<1>2. [f EXCEPT !.blocks = s] = [f EXCEPT !.blocks = s, !.gen = @ + 0]
  BY <1>1 DEF Bodies
<1>3. PICK more : more = 0
  OBVIOUS
<1>4. Changed([f EXCEPT !.blocks = s, !.gen = @ + more], cfg) = Published(f, s, more, f.erased, cfg)
  BY ChangedForm
<1> QED BY <1>2, <1>3, <1>4

\* An erasure, as a publication.
LEMMA ErasedForm ==
  ASSUME NEW f, Good(f), NEW R \in SUBSET LiveNodes, NEW s, NEW cfg \in BOOLEAN
  PROVE  /\ Changed([Erased(f, R) EXCEPT !.blocks = s], cfg) = Published(f, s, 0, Erased(f, R).erased, cfg)
         /\ Erased(f, R).blocks = f.blocks
<1> DEFINE h == Erased(f, R)
<1>1. PICK log : log = h.erased
  OBVIOUS
<1>2. log \in Logs /\ f \in Bodies(Logs)
  BY <1>1, ErasureLog DEF Good
<1>3. h = [f EXCEPT !.erased = log]
  <2>1. CASE ~f.tracks
    <3>1. h = f /\ log = f.erased
      BY <1>1, <2>1 DEF Erased
    <3> QED BY <1>2, <3>1 DEF Bodies
  <2>2. CASE f.tracks
    <3>1. PICK e : h = [f EXCEPT !.erased = e]
      BY <2>2 DEF Erased
    <3>2. e = log
      BY <1>1, <1>2, <3>1 DEF Bodies
    <3> QED BY <3>1, <3>2
  <2> QED BY <2>1, <2>2
<1> HIDE DEF h
<1>4. h \in Bodies(Logs) /\ h.blocks = f.blocks
  BY <1>2, <1>3 DEF Bodies
<1>5. /\ h.regs = f.regs /\ h.backed = f.backed /\ h.data = f.data /\ h.gen = f.gen /\ h.tracks = f.tracks
      /\ h.rev = f.rev
  BY <1>2, <1>3 DEF Bodies
<1>6. Changed([h EXCEPT !.blocks = s], cfg) = Published(h, s, 0, h.erased, cfg)
  BY <1>4, BlocksForm
<1>7. Published(h, s, 0, h.erased, cfg) = Published(f, s, 0, h.erased, cfg)
  BY <1>5 DEF Published
<1> QED BY <1>4, <1>6, <1>7 DEF h

\* An instruction that is replaced keeps its node.
LEMMA InstructionReplaced ==
  ASSUME NEW s \in Seq(Instructions), Distinct(s), NEW p \in DOMAIN s, NEW e \in Instructions, e.n = s[p].n
  PROVE  LET t == [s EXCEPT ![p] = e]
         IN  t \in Seq(Instructions) /\ Distinct(t) /\ InsNodes(t) = InsNodes(s)
<1> DEFINE t == [s EXCEPT ![p] = e]
<1>1. DOMAIN s = 1..Len(s)
  BY LenProperties
<1>2. t \in Seq(Instructions) /\ DOMAIN t = DOMAIN s
  BY <1>1, ExceptSeq
<1>3. \A i \in DOMAIN s : t[i].n = s[i].n
  OBVIOUS
<1> HIDE DEF t
<1>4. Distinct(t)
  BY <1>2, <1>3 DEF Distinct
<1>5. InsNodes(t) = InsNodes(s)
  BY <1>2, <1>3 DEF InsNodes, Range
<1> QED BY <1>2, <1>4, <1>5 DEF t

\* ReplaceOwned: another instruction at the same node.
LEMMA ReplaceSound ==
  ASSUME NEW f, Good(f), NEW n \in OfBody("ins", f), NEW t \in InsTemplates
  PROVE  Sound(f, ReplaceOwned(f, n, t))
<1> DEFINE b == BlockOf(f, n)
           p == PlaceOf(f, n)
           old == f.blocks[b].ins[p]
           e == WithNode(t, n)
           u == [f.blocks[b].ins EXCEPT ![p] = e]
           s == WithIns(f.blocks, b, u)
           cfg == (AffectsCfg(old.op) \/ AffectsCfg(t.op)) /\ ~KeepsEdges(old, t)
<1>1. b \in DOMAIN f.blocks /\ p \in DOMAIN f.blocks[b].ins /\ f.blocks[b].ins[p].n = n
  BY PlaceFound
<1>2. cfg \in BOOLEAN
  OBVIOUS
<1>3. ReplaceOwned(f, n, t) = Refused(f)
      \/ ReplaceOwned(f, n, t) = Done(Changed([f EXCEPT !.blocks[b].ins[p] = e], cfg))
  BY DEF ReplaceOwned
<1> HIDE DEF b, p, cfg
<1>4. [f EXCEPT !.blocks[b].ins[p] = e] = [f EXCEPT !.blocks = s]
  BY DEF WithIns
<1>5. f \in Bodies(Logs) /\ f.blocks \in Seq(BodyBlocks) /\ CleanBlocks(f.blocks)
  BY GoodBlocks DEF Good
<1>6. e \in Instructions /\ e.n = n
  <2>1. n \in LiveNodes
    <3>1. "ins" \in Kinds
      BY DEF Kinds
    <3> QED BY <3>1, NodesAreLive, KindsOfSeq, BodyNodes
  <2> QED BY <2>1 DEF WithNode, Instructions, InsTemplates
<1> HIDE DEF e
<1>7. u \in Seq(Instructions) /\ Distinct(u) /\ InsNodes(u) = OfKind("ins", f.blocks[b])
  <2>1. PICK v : v = f.blocks[b].ins
    OBVIOUS
  <2>2. /\ v \in Seq(Instructions) /\ Distinct(v) /\ p \in DOMAIN v /\ e.n = v[p].n
        /\ InsNodes(v) = OfKind("ins", f.blocks[b])
    BY <1>1, <1>6, <2>1, GoodBlocks
  <2>3. [v EXCEPT ![p] = e] \in Seq(Instructions) /\ Distinct([v EXCEPT ![p] = e]) /\ InsNodes([v EXCEPT ![p] = e]) = InsNodes(v)
    BY <1>6, <2>2, InstructionReplaced
  <2> QED BY <2>1, <2>2, <2>3
<1> HIDE DEF u
<1>8. OneKindChanged(s, f.blocks, b, [f.blocks[b] EXCEPT !.ins = u], "ins", InsNodes(u))
  <2>1. PICK X : X = {}
    OBVIOUS
  <2>2. InsNodes(u) \subseteq OfKind("ins", f.blocks[b]) \cup X /\ X \cap NodesSeq(f.blocks) = {}
    BY <1>7, <2>1
  <2> QED BY <1>1, <1>5, <1>7, <2>2, InsChanged
<1> HIDE DEF s
<1>9. \A k \in Kinds : OfSeq(k, s) = OfSeq(k, f.blocks)
  <2>1. OfKind("ins", f.blocks[b]) \subseteq OfSeq("ins", f.blocks)
    BY <1>1 DEF OfSeq
  <2>2. OfSeq("ins", s) = OfSeq("ins", f.blocks)
    BY <1>7, <1>8, <2>1 DEF OneKindChanged
  <2> QED BY <1>8, <2>2 DEF OneKindChanged
<1>10. Grows(f, Published(f, s, 0, f.erased, cfg))
  BY <1>8, <1>9, PublishedSame DEF OneKindChanged
<1>11. Changed([f EXCEPT !.blocks = s], cfg) = Published(f, s, 0, f.erased, cfg)
  BY <1>2, <1>5, BlocksForm
<1>12. Grows(f, Changed([f EXCEPT !.blocks = s], cfg))
  BY <1>10, <1>11
<1> QED BY <1>3, <1>4, <1>12, RefusedSound, DoneGrows

\* The nodes are those of the three kinds.
LEMMA ThreeKinds ==
  ASSUME NEW s
  PROVE  NodesSeq(s) = OfSeq("block", s) \cup OfSeq("label", s) \cup OfSeq("ins", s)
<1>1. \A k \in Kinds : k = "block" \/ k = "label" \/ k = "ins"
  BY DEF Kinds
<1>2. "block" \in Kinds /\ "label" \in Kinds /\ "ins" \in Kinds
  BY DEF Kinds
<1> QED BY <1>1, <1>2, KindsOfSeq

\* Without its instruction at one place, a body has one node less.
LEMMA WithoutInstruction ==
  ASSUME NEW s \in Seq(BodyBlocks), CleanBlocks(s), NEW b \in DOMAIN s, NEW p \in DOMAIN s[b].ins
  PROVE  LET w == WithIns(s, b, RemoveAt(s[b].ins, p))
             n == s[b].ins[p].n
         IN  /\ OneKindChanged(w, s, b, [s[b] EXCEPT !.ins = RemoveAt(s[b].ins, p)], "ins", OfKind("ins", s[b]) \ {n})
             /\ n \in OfSeq("ins", s)
             /\ OfSeq("ins", w) = OfSeq("ins", s) \ {n}
             /\ NodesSeq(w) = NodesSeq(s) \ {n}
<1> DEFINE v == s[b].ins
           n == v[p].n
           u == RemoveAt(v, p)
           w == WithIns(s, b, u)
<1>1. s[b] \in BodyBlocks /\ CleanBlock(s[b])
  <2>1. DOMAIN s = 1..Len(s)
    BY LenProperties
  <2> QED BY <2>1, ElementOfSeq DEF CleanBlocks
<1>2. v \in Seq(Instructions) /\ Distinct(v) /\ InsNodes(v) = OfKind("ins", s[b]) /\ DOMAIN v = 1..Len(v)
  <2>1. v \in Seq(Instructions)
    BY <1>1 DEF BodyBlocks
  <2>2. Distinct(v)
    BY <1>1 DEF CleanBlock, Distinct
  <2>3. InsNodes(v) = OfKind("ins", s[b])
    BY DEF InsNodes, OfKind
  <2> HIDE DEF v
  <2> QED BY <2>1, <2>2, <2>3, LenProperties
<1>3. p \in 1..Len(v)
  BY <1>2
<1>4. n \in OfKind("ins", s[b])
  BY <1>2 DEF InsNodes, Range
<1>5. u \in Seq(Instructions) /\ Distinct(u) /\ InsNodes(u) = OfKind("ins", s[b]) \ {n}
  <2> HIDE DEF v
  <2> QED BY <1>2, <1>3, InstructionRemoved
<1> HIDE DEF u, v
<1>6. OneKindChanged(w, s, b, [s[b] EXCEPT !.ins = u], "ins", InsNodes(u))
  <2>1. PICK X : X = {}
    OBVIOUS
  <2>2. InsNodes(u) \subseteq OfKind("ins", s[b]) \cup X /\ X \cap NodesSeq(s) = {}
    BY <1>5, <2>1
  <2> QED BY <1>5, <2>2, InsChanged
<1> HIDE DEF w
<1>7. OfKind("ins", s[b]) \subseteq OfSeq("ins", s)
  BY DEF OfSeq
<1>8. OfSeq("ins", w) = OfSeq("ins", s) \ {n}
  BY <1>4, <1>5, <1>6, <1>7 DEF OneKindChanged
<1>9. OfSeq("block", w) = OfSeq("block", s) /\ OfSeq("label", w) = OfSeq("label", s)
  BY <1>6 DEF OneKindChanged, Kinds
<1>10. n \notin OfSeq("block", s) /\ n \notin OfSeq("label", s)
  <2>1. n \in OfSeq("ins", s)
    BY <1>4, <1>7
  <2>2. "block" \in Kinds /\ "label" \in Kinds /\ "ins" \in Kinds /\ "block" # "ins" /\ "label" # "ins"
    BY DEF Kinds
  <2> QED BY <2>1, <2>2, OneKind
<1>11. NodesSeq(w) = NodesSeq(s) \ {n}
  BY <1>8, <1>9, <1>10, ThreeKinds
<1> QED BY <1>4, <1>5, <1>6, <1>7, <1>8, <1>11 DEF w, u, v

\* Erase: an instruction goes and is logged.
LEMMA EraseSound ==
  ASSUME NEW f, Good(f), NEW n \in OfBody("ins", f)
  PROVE  Sound(f, Erase(f, n))
<1> DEFINE b == BlockOf(f, n)
           p == PlaceOf(f, n)
           u == RemoveAt(f.blocks[b].ins, p)
           s == WithIns(f.blocks, b, u)
           cfg == AffectsCfg(InstructionAt(f, n).op)
           h == Erased(f, {n})
<1>1. b \in DOMAIN f.blocks /\ p \in DOMAIN f.blocks[b].ins /\ f.blocks[b].ins[p].n = n
  BY PlaceFound
<1>2. cfg \in BOOLEAN
  BY AffectsBoolean
<1>3. Erase(f, n) = Done(Changed([h EXCEPT !.blocks[b].ins = RemoveAt(@, p)], cfg))
  BY DEF Erase
<1> HIDE DEF b, p, cfg
<1>4. f \in Bodies(Logs) /\ f.blocks \in Seq(BodyBlocks) /\ CleanBlocks(f.blocks)
  BY GoodBlocks DEF Good
<1>5. /\ s \in Seq(BodyBlocks) /\ CleanBlocks(s)
      /\ OfSeq("ins", s) = OfSeq("ins", f.blocks) \ {n}
      /\ NodesSeq(s) = NodesSeq(f.blocks) \ {n}
      /\ \A k \in Kinds : k # "ins" => OfSeq(k, s) = OfSeq(k, f.blocks)
      /\ n \in OfSeq("ins", f.blocks)
  <2>1. PICK m : m = f.blocks[b].ins[p].n
    OBVIOUS
  <2>2. /\ OneKindChanged(s, f.blocks, b, [f.blocks[b] EXCEPT !.ins = u], "ins", OfKind("ins", f.blocks[b]) \ {m})
        /\ m \in OfSeq("ins", f.blocks)
        /\ OfSeq("ins", s) = OfSeq("ins", f.blocks) \ {m}
        /\ NodesSeq(s) = NodesSeq(f.blocks) \ {m}
    BY <1>1, <1>4, <2>1, WithoutInstruction, ZenonT(30)
  <2>3. m = n
    BY <1>1, <2>1
  <2> HIDE DEF s, u
  <2> QED BY <2>2, <2>3 DEF OneKindChanged
<1>6. \A k \in Kinds : OfSeq(k, s) \subseteq OfSeq(k, f.blocks)
  BY <1>5
<1>7. PICK R : R = {n}
  OBVIOUS
<1>8. R \in SUBSET LiveNodes /\ R = NodesSeq(f.blocks) \ NodesSeq(s)
  <2>1. n \in NodesSeq(f.blocks)
    BY <1>5, ThreeKinds
  <2> QED BY <1>5, <1>7, <2>1, NodesAreLive, BodyNodes
<1> HIDE DEF s
<1>9. Shrinks(f, Published(f, s, 0, Erased(f, R).erased, cfg))
  BY <1>5, <1>6, <1>8, PublishedFewer
<1>10. Changed([Erased(f, R) EXCEPT !.blocks = s], cfg) = Published(f, s, 0, Erased(f, R).erased, cfg) /\ h.blocks = f.blocks
  BY <1>2, <1>7, <1>8, ErasedForm
<1> HIDE DEF h
<1>11. [h EXCEPT !.blocks[b].ins = RemoveAt(@, p)] = [h EXCEPT !.blocks = s]
  BY <1>10 DEF s, WithIns
<1>12. Shrinks(f, Changed([h EXCEPT !.blocks = s], cfg))
  BY <1>7, <1>9, <1>10 DEF h
<1> QED BY <1>3, <1>11, <1>12, DoneSound DEF Evolves

\* An instruction at its new place.
LEMMA MoveGrows ==
  ASSUME NEW f, Good(f), NEW n \in OfBody("ins", f), NEW b \in DOMAIN f.blocks,
         NEW before \in {None} \cup (InsNodes(f.blocks[b].ins) \ {n})
  PROVE  Grows(f, MoveTo(f, InstructionAt(f, n), b, before))
<1> DEFINE c == BlockOf(f, n)
           q == PlaceOf(f, n)
           insn == InstructionAt(f, n)
           w == WithIns(f.blocks, c, RemoveAt(f.blocks[c].ins, q))
           without == [f EXCEPT !.blocks = w]
           place == IF before = None THEN Len(w[b].ins) + 1 ELSE PlaceOf(without, before)
           u == InsertAt(w[b].ins, place, insn)
           s == WithIns(w, b, u)
           cfg == AffectsCfg(insn.op)
<1>1. c \in DOMAIN f.blocks /\ q \in DOMAIN f.blocks[c].ins /\ f.blocks[c].ins[q].n = n
  BY PlaceFound
<1>2. insn = f.blocks[c].ins[q]
  BY DEF InstructionAt
<1>3. f \in Bodies(Logs) /\ f.blocks \in Seq(BodyBlocks) /\ CleanBlocks(f.blocks)
  BY GoodBlocks DEF Good
<1>4. insn \in Instructions /\ insn.n = n
  <2>1. f.blocks[c].ins \in Seq(Instructions)
    BY <1>1, GoodBlocks
  <2> QED BY <1>1, <1>2, <2>1, LenProperties, ElementOfSeq
<1>5. BlockOf(f, insn.n) = c /\ PlaceOf(f, insn.n) = q
  BY <1>4
<1> HIDE DEF c, q, insn
<1>6. [f EXCEPT !.blocks[c].ins = RemoveAt(@, q)] = without
  BY DEF WithIns
<1>7. /\ OneKindChanged(w, f.blocks, c, [f.blocks[c] EXCEPT !.ins = RemoveAt(f.blocks[c].ins, q)], "ins",
                        OfKind("ins", f.blocks[c]) \ {n})
      /\ OfSeq("ins", w) = OfSeq("ins", f.blocks) \ {n}
      /\ NodesSeq(w) = NodesSeq(f.blocks) \ {n}
      /\ n \in OfSeq("ins", f.blocks)
  BY <1>1, <1>3, WithoutInstruction, ZenonT(30)
<1>8. without.blocks = w
  BY <1>3 DEF Bodies
<1> HIDE DEF w
<1>9. w \in Seq(BodyBlocks) /\ CleanBlocks(w) /\ b \in DOMAIN w /\ w[b] \in BodyBlocks /\ CleanBlock(w[b])
  <2>1. w \in Seq(BodyBlocks) /\ CleanBlocks(w) /\ b \in DOMAIN w
    BY <1>7 DEF OneKindChanged
  <2>2. DOMAIN w = 1..Len(w)
    BY <2>1, LenProperties
  <2> QED BY <2>1, <2>2, ElementOfSeq DEF CleanBlocks
<1>10. /\ w[b].ins \in Seq(Instructions) /\ Distinct(w[b].ins) /\ InsNodes(w[b].ins) = OfKind("ins", w[b])
       /\ Len(w[b].ins) \in Nat /\ DOMAIN w[b].ins = 1..Len(w[b].ins)
  <2>1. w[b].ins \in Seq(Instructions)
    BY <1>9 DEF BodyBlocks
  <2>2. Distinct(w[b].ins)
    BY <1>9 DEF CleanBlock, Distinct
  <2>3. InsNodes(w[b].ins) = OfKind("ins", w[b])
    BY DEF InsNodes, OfKind
  <2> QED BY <2>1, <2>2, <2>3, LenProperties
<1> HIDE DEF without
<1>11. place \in 1..(Len(w[b].ins) + 1)
  <2>1. CASE before = None
    BY <1>10, <2>1
  <2>2. CASE before # None
    <3>1. before \in InsNodes(f.blocks[b].ins) /\ before # n
      BY <2>2
    <3>2. before \in OfKind("ins", w[b])
      <4>1. CASE b = c
        <5>1. w[b] = [f.blocks[c] EXCEPT !.ins = RemoveAt(f.blocks[c].ins, q)]
          BY <1>7, <4>1 DEF OneKindChanged
        <5>2. w[b].ins = RemoveAt(f.blocks[c].ins, q)
          BY <1>1, <5>1, GoodBlocks DEF BodyBlocks
        <5>3. PICK v : v = f.blocks[c].ins
          OBVIOUS
        <5>4. v \in Seq(Instructions) /\ Distinct(v) /\ q \in 1..Len(v) /\ v[q].n = n
          BY <1>1, <5>3, GoodBlocks
        <5>5. InsNodes(RemoveAt(v, q)) = InsNodes(v) \ {n}
          BY <5>4, InstructionRemoved
        <5> QED BY <1>10, <3>1, <4>1, <5>2, <5>3, <5>5
      <4>2. CASE b # c
        <5>1. w[b] = f.blocks[b]
          BY <1>7, <4>2 DEF OneKindChanged
        <5> QED BY <1>10, <3>1, <5>1
      <4> QED BY <4>1, <4>2
    <3>3. before \in OfBody("ins", without)
      BY <1>8, <1>9, <3>2, BodyNodes DEF OfSeq
    <3>4. PICK d : d = BlockOf(without, before)
      OBVIOUS
    <3>5. /\ d \in DOMAIN w /\ PlaceOf(without, before) \in DOMAIN w[d].ins
          /\ w[d].ins[PlaceOf(without, before)].n = before
      BY <1>8, <3>3, <3>4, PlaceFound
    <3>6. before \in OfKind("ins", w[d])
      BY <3>5 DEF OfKind, Range
    <3>7. before \in NodesIn(w[d]) /\ before \in NodesIn(w[b])
      <4>1. "ins" \in Kinds
        BY DEF Kinds
      <4> QED BY <3>2, <3>6, <4>1, KindsOfBlock
    <3>8. d = b
      BY <1>9, <3>5, <3>7 DEF CleanBlocks
    <3> QED BY <1>10, <2>2, <3>5, <3>8
  <2> QED BY <2>1, <2>2
<1> HIDE DEF place
<1>12. n \notin InsNodes(w[b].ins)
  <2>1. OfKind("ins", w[b]) \subseteq OfSeq("ins", w)
    BY <1>9 DEF OfSeq
  <2> QED BY <1>7, <1>10, <2>1
<1>13. u \in Seq(Instructions) /\ Distinct(u) /\ InsNodes(u) = OfKind("ins", w[b]) \cup {n}
  BY <1>4, <1>10, <1>11, <1>12, InstructionInserted
<1> HIDE DEF u
<1>14. OneKindChanged(s, w, b, [w[b] EXCEPT !.ins = u], "ins", InsNodes(u))
  <2>1. PICK X : X = {n}
    OBVIOUS
  <2>2. InsNodes(u) \subseteq OfKind("ins", w[b]) \cup X /\ X \cap NodesSeq(w) = {}
    BY <1>7, <1>13, <2>1
  <2> QED BY <1>9, <1>13, <2>2, InsChanged
<1> HIDE DEF s
<1>15. \A k \in Kinds : OfSeq(k, s) = OfSeq(k, f.blocks)
  <2>1. OfKind("ins", w[b]) \subseteq OfSeq("ins", w)
    BY <1>9 DEF OfSeq
  <2>2. OfSeq("ins", s) = OfSeq("ins", f.blocks)
    BY <1>7, <1>13, <1>14, <2>1, ZenonT(30) DEF OneKindChanged
  <2> QED BY <1>7, <1>14, <2>2 DEF OneKindChanged
<1>16. cfg \in BOOLEAN
  BY AffectsBoolean
<1> HIDE DEF cfg
<1>17. Grows(f, Published(f, s, 0, f.erased, cfg))
  BY <1>14, <1>15, PublishedSame DEF OneKindChanged
<1>18. Changed([f EXCEPT !.blocks = s], cfg) = Published(f, s, 0, f.erased, cfg)
  BY <1>3, <1>16, BlocksForm
<1>19. [without EXCEPT !.blocks[b].ins = InsertAt(@, place, insn)] = [f EXCEPT !.blocks = s]
  <2>1. [without EXCEPT !.blocks[b].ins = InsertAt(@, place, insn)] = [without EXCEPT !.blocks = s]
    BY <1>8 DEF s, u, WithIns
  <2>2. [without EXCEPT !.blocks = s] = [f EXCEPT !.blocks = s]
    BY <1>3 DEF without, Bodies
  <2> QED BY <2>1, <2>2
<1>20. MoveTo(f, insn, b, before) = Changed([without EXCEPT !.blocks[b].ins = InsertAt(@, place, insn)], cfg)
  <2>1. MoveTo(f, insn, b, before)
        = Changed([without EXCEPT !.blocks[b].ins =
             InsertAt(@, IF before = None THEN Len(@) + 1 ELSE PlaceOf(without, before), insn)], cfg)
    BY <1>5, <1>6, ZenonT(30) DEF MoveTo, cfg
  <2> QED BY <1>8, <2>1 DEF place
<1> QED BY <1>17, <1>18, <1>19, <1>20 DEF insn

\* MoveBefore: an instruction at another place, its node the same.
LEMMA MoveBeforeSound ==
  ASSUME NEW f, Good(f), NEW n \in OfBody("ins", f), NEW b \in DOMAIN f.blocks,
         NEW before \in {None} \cup InsNodes(f.blocks[b].ins)
  PROVE  Sound(f, MoveBefore(f, n, b, before))
<1>1. CASE before = n
  <2>1. MoveBefore(f, n, b, before) = Done(f)
    BY <1>1 DEF MoveBefore
  <2> QED BY <2>1, DoneSame
<1>2. CASE before # n
  <2>1. MoveBefore(f, n, b, before) = Refused(f)
        \/ MoveBefore(f, n, b, before) = Done(MoveTo(f, InstructionAt(f, n), b, before))
    BY <1>2 DEF MoveBefore
  <2>2. before \in {None} \cup (InsNodes(f.blocks[b].ins) \ {n})
    BY <1>2
  <2>3. Grows(f, MoveTo(f, InstructionAt(f, n), b, before))
    BY <2>2, MoveGrows
  <2> QED BY <2>1, <2>3, RefusedSound, DoneGrows
<1> QED BY <1>1, <1>2

\* The two halves of the instructions of a block.
LEMMA InstructionsSplit ==
  ASSUME NEW s \in Seq(Instructions), Distinct(s), NEW p \in DOMAIN s
  PROVE  LET u == SubSeq(s, 1, p - 1)
             v == SubSeq(s, p, Len(s))
         IN  /\ u \in Seq(Instructions) /\ Distinct(u)
             /\ v \in Seq(Instructions) /\ Distinct(v)
             /\ InsNodes(s) = InsNodes(u) \cup InsNodes(v)
             /\ InsNodes(u) \cap InsNodes(v) = {}
<1> DEFINE u == SubSeq(s, 1, p - 1)
           v == SubSeq(s, p, Len(s))
<1>1. Len(s) \in Nat /\ DOMAIN s = 1..Len(s) /\ p \in 1..Len(s) /\ p \in Int
  BY LenProperties
<1>2. \A i \in 1..Len(s) : s[i] \in Instructions
  BY <1>1, ElementOfSeq
<1>3. u \in Seq(Instructions) /\ Len(u) = p - 1 /\ \A i \in 1..(p - 1) : u[i] = s[i]
  <2>1. \A i \in 1..(p - 1) : s[i] \in Instructions
    BY <1>1, <1>2
  <2> QED BY <1>1, <2>1, SubSeqProperties, Z3
<1>4. v \in Seq(Instructions) /\ Len(v) = Len(s) - p + 1 /\ \A i \in 1..(Len(s) - p + 1) : v[i] = s[p + i - 1]
  <2>1. \A i \in p..Len(s) : s[i] \in Instructions
    BY <1>1, <1>2
  <2> QED BY <1>1, <2>1, SubSeqProperties, Z3
<1> HIDE DEF u, v
<1>5. DOMAIN u = 1..(p - 1) /\ DOMAIN v = 1..(Len(s) - p + 1)
  BY <1>3, <1>4, LenProperties
<1>6. ASSUME NEW i \in DOMAIN u
      PROVE  i \in DOMAIN s /\ i < p /\ u[i] = s[i]
  BY <1>1, <1>3, <1>5
<1>7. ASSUME NEW i \in DOMAIN v
      PROVE  p + i - 1 \in DOMAIN s /\ p + i - 1 >= p /\ v[i] = s[p + i - 1]
  <2>1. PICK m \in Nat : m = Len(s)
    BY <1>1
  <2>2. PICK q \in 1..m : q = p
    BY <1>1, <2>1
  <2>3. i \in 1..(m - q + 1)
    BY <1>5, <2>1, <2>2
  <2>4. q + i - 1 \in 1..m /\ q + i - 1 >= q
    BY <2>3
  <2>5. v[i] = s[q + i - 1]
    BY <1>4, <2>1, <2>2, <2>3
  <2> QED BY <1>1, <2>1, <2>2, <2>4, <2>5
<1>8. Distinct(u)
  BY <1>6 DEF Distinct
<1>9. Distinct(v)
  <2> SUFFICES ASSUME NEW i \in DOMAIN v, NEW j \in DOMAIN v, v[i].n = v[j].n
               PROVE  i = j
    BY DEF Distinct
  <2>1. p + i - 1 = p + j - 1
    BY <1>7 DEF Distinct
  <2>2. i \in Int /\ j \in Int
    BY <1>1, <1>5
  <2> QED BY <1>1, <2>1, <2>2
<1>10. InsNodes(u) \subseteq InsNodes(s)
  BY <1>6 DEF InsNodes, Range
<1>11. InsNodes(v) \subseteq InsNodes(s)
  BY <1>7 DEF InsNodes, Range
<1>12. ASSUME NEW n \in InsNodes(s)
       PROVE  n \in InsNodes(u) \cup InsNodes(v)
  <2>1. PICK i \in DOMAIN s : n = s[i].n
    BY <1>12 DEF InsNodes, Range
  <2>2. CASE i < p
    <3>1. i \in DOMAIN u /\ u[i] = s[i]
      BY <1>1, <1>3, <1>5, <2>2
    <3> QED BY <2>1, <3>1 DEF InsNodes, Range
  <2>3. CASE i >= p
    <3>1. i - p + 1 \in DOMAIN v /\ p + (i - p + 1) - 1 = i
      BY <1>1, <1>5, <2>3
    <3>2. v[i - p + 1] = s[i]
      BY <1>7, <3>1
    <3> QED BY <2>1, <3>1, <3>2 DEF InsNodes, Range
  <2>4. i < p \/ i >= p
    BY <1>1
  <2> QED BY <2>2, <2>3, <2>4
<1>13. ASSUME NEW n \in InsNodes(u), n \in InsNodes(v)
       PROVE  FALSE
  <2>1. PICK i \in DOMAIN u : n = u[i].n
    BY <1>13 DEF InsNodes, Range
  <2>2. PICK j \in DOMAIN v : n = v[j].n
    BY <1>13 DEF InsNodes, Range
  <2>3. i \in DOMAIN s /\ i < p /\ s[i].n = n
    BY <1>6, <2>1
  <2>4. PICK k \in DOMAIN s : k >= p /\ s[k].n = n
    BY <1>7, <2>2
  <2>5. i = k
    BY <2>3, <2>4 DEF Distinct
  <2> QED BY <1>1, <2>3, <2>4, <2>5
<1>14. InsNodes(s) = InsNodes(u) \cup InsNodes(v)
  BY <1>10, <1>11, <1>12
<1>15. InsNodes(u) \cap InsNodes(v) = {}
  BY <1>13
<1> QED BY <1>3, <1>4, <1>8, <1>9, <1>14, <1>15 DEF u, v

\* What a new block leaves in place.
LEMMA AroundNewBlock ==
  ASSUME NEW f, Good(f), NEW place \in 1..(Len(f.blocks) + 1), NEW g,
         InsertedAs(g.blocks, f.blocks, place, Block(NewNode(f), 0)) \/ InsertedAs(g.blocks, f.blocks, place, Block(NewNode(f), 1))
  PROVE  /\ Len(g.blocks) = Len(f.blocks) + 1
         /\ g.blocks[place].labels = <<>> /\ g.blocks[place].ins = <<>> /\ g.blocks[place].n = NewNode(f)
         /\ \A c \in 1..Len(f.blocks) : c < place => g.blocks[c] = f.blocks[c]
         /\ \A c \in 1..Len(f.blocks) : c >= place => g.blocks[c + 1] = f.blocks[c]
<1>1. Len(f.blocks) \in Nat /\ place \in Int
  BY GoodBlocks
<1>2. PICK y : /\ InsertedAs(g.blocks, f.blocks, place, y)
               /\ y = Block(NewNode(f), 0) \/ y = Block(NewNode(f), 1)
  OBVIOUS
<1>3. y.labels = <<>> /\ y.ins = <<>> /\ y.n = NewNode(f)
  BY <1>2 DEF Block
<1>4. Len(g.blocks) = Len(f.blocks) + 1
  BY <1>2 DEF InsertedAs
<1>5. \A i \in 1..(Len(f.blocks) + 1) : g.blocks[i] = IF i < place THEN f.blocks[i] ELSE IF i = place THEN y ELSE f.blocks[i - 1]
  BY <1>2, <1>4 DEF InsertedAs
<1>6. g.blocks[place] = y
  BY <1>1, <1>5
<1>7. ASSUME NEW c \in 1..Len(f.blocks), c < place
      PROVE  g.blocks[c] = f.blocks[c]
  BY <1>1, <1>5, <1>7
<1>8. ASSUME NEW c \in 1..Len(f.blocks), c >= place
      PROVE  g.blocks[c + 1] = f.blocks[c]
  <2>1. c + 1 \in 1..(Len(f.blocks) + 1) /\ ~(c + 1 < place) /\ c + 1 # place /\ (c + 1) - 1 = c
    BY <1>1, <1>8
  <2> QED BY <1>5, <2>1
<1> QED BY <1>3, <1>4, <1>6, <1>7, <1>8

\* SplitBefore: the tail of a block moves to a new one.
LEMMA SplitSound ==
  ASSUME NEW f, Good(f), NEW n \in OfBody("ins", f)
  PROVE  Sound(f, SplitBefore(f, n))
<1> DEFINE b == BlockOf(f, n)
           p == PlaceOf(f, n)
           with == CreateBlock(f, b + 1, f.blocks[b].scope)
           u == SubSeq(f.blocks[b].ins, 1, p - 1)
           v == SubSeq(f.blocks[b].ins, p, Len(f.blocks[b].ins))
           s == WithIns(with.blocks, b, u)
           t == WithIns(s, b + 1, v)
           g == [with EXCEPT !.blocks = t]
<1>1. b \in DOMAIN f.blocks /\ p \in DOMAIN f.blocks[b].ins
  BY PlaceFound
<1>2. SplitBefore(f, n) = Done([with EXCEPT !.blocks[b].ins = SubSeq(@, 1, p - 1), !.blocks[b + 1].ins = v])
  BY DEF SplitBefore
<1> HIDE DEF b, p
<1>3. /\ b \in 1..Len(f.blocks) /\ Len(f.blocks) \in Nat /\ b + 1 \in 1..(Len(f.blocks) + 1) /\ f.blocks[b].scope \in {0, 1}
  BY <1>1, GoodBlocks, SMTT(30) DEF BodyBlocks
<1>4. Grows(f, with) /\ InsertedAs(with.blocks, f.blocks, b + 1, Block(NewNode(f), f.blocks[b].scope))
  BY <1>3, CreateBlockGrows
<1> HIDE DEF with
<1>5. Good(with)
  BY <1>4 DEF Grows
<1>6. /\ Len(with.blocks) = Len(f.blocks) + 1 /\ with.blocks[b + 1].ins = <<>>
      /\ with.blocks[b] = f.blocks[b]
  <2>1. PICK place \in 1..(Len(f.blocks) + 1) : place = b + 1
    BY <1>3
  <2>2. InsertedAs(with.blocks, f.blocks, place, Block(NewNode(f), 0)) \/ InsertedAs(with.blocks, f.blocks, place, Block(NewNode(f), 1))
    BY <1>3, <1>4, <2>1
  <2>3. /\ Len(with.blocks) = Len(f.blocks) + 1 /\ with.blocks[place].ins = <<>>
        /\ \A c \in 1..Len(f.blocks) : c < place => with.blocks[c] = f.blocks[c]
    BY <2>2, AroundNewBlock
  <2> QED BY <1>3, <2>1, <2>3
<1>7. with.blocks \in Seq(BodyBlocks) /\ CleanBlocks(with.blocks) /\ b \in DOMAIN with.blocks /\ b + 1 \in DOMAIN with.blocks
  BY <1>3, <1>5, <1>6, GoodBlocks
<1>8. /\ u \in Seq(Instructions) /\ Distinct(u)
      /\ v \in Seq(Instructions) /\ Distinct(v)
      /\ InsNodes(u) \cup InsNodes(v) = OfKind("ins", with.blocks[b])
      /\ InsNodes(u) \cap InsNodes(v) = {}
  <2>1. PICK i : i = f.blocks[b].ins
    OBVIOUS
  <2>2. i \in Seq(Instructions) /\ Distinct(i) /\ p \in DOMAIN i /\ InsNodes(i) = OfKind("ins", with.blocks[b])
    BY <1>1, <1>6, <2>1, GoodBlocks
  <2> QED BY <2>1, <2>2, InstructionsSplit
<1> HIDE DEF u, v
<1>9. OneKindChanged(s, with.blocks, b, [with.blocks[b] EXCEPT !.ins = u], "ins", InsNodes(u))
  <2>1. PICK X : X = {}
    OBVIOUS
  <2>2. InsNodes(u) \subseteq OfKind("ins", with.blocks[b]) \cup X /\ X \cap NodesSeq(with.blocks) = {}
    BY <1>8, <2>1
  <2> QED BY <1>7, <1>8, <2>2, InsChanged
<1>10. OfKind("ins", with.blocks[b]) \subseteq OfSeq("ins", with.blocks)
  BY <1>7 DEF OfSeq
<1>11. OfSeq("block", s) = OfSeq("block", with.blocks) /\ OfSeq("label", s) = OfSeq("label", with.blocks)
  BY <1>9 DEF OneKindChanged, Kinds
<1>12. OfSeq("ins", s) = OfSeq("ins", with.blocks) \ InsNodes(v)
  BY <1>8, <1>9, <1>10 DEF OneKindChanged
<1>13. InsNodes(v) \cap NodesSeq(s) = {}
  <2>1. InsNodes(v) \subseteq OfSeq("ins", with.blocks)
    BY <1>8, <1>10
  <2>2. "block" \in Kinds /\ "label" \in Kinds /\ "ins" \in Kinds /\ "block" # "ins" /\ "label" # "ins"
    BY DEF Kinds
  <2>3. InsNodes(v) \cap OfSeq("block", with.blocks) = {}
    BY <1>7, <2>1, <2>2, OneKind
  <2>4. InsNodes(v) \cap OfSeq("label", with.blocks) = {}
    BY <1>7, <2>1, <2>2, OneKind
  <2> QED BY <1>11, <1>12, <2>3, <2>4, ThreeKinds
<1>14. s[b + 1].ins = <<>> /\ s \in Seq(BodyBlocks) /\ CleanBlocks(s) /\ b + 1 \in DOMAIN s
  <2>1. b + 1 # b
    BY <1>3
  <2> QED BY <1>6, <1>7, <1>9, <2>1 DEF OneKindChanged
<1>15. OneKindChanged(t, s, b + 1, [s[b + 1] EXCEPT !.ins = v], "ins", InsNodes(v))
  <2>1. PICK X : X = InsNodes(v)
    OBVIOUS
  <2>2. InsNodes(v) \subseteq OfKind("ins", s[b + 1]) \cup X /\ X \cap NodesSeq(s) = {}
    BY <1>13, <2>1
  <2>3. PICK c \in DOMAIN s : c = b + 1
    BY <1>14
  <2> HIDE DEF s
  <2>4. OneKindChanged(WithIns(s, c, v), s, c, [s[c] EXCEPT !.ins = v], "ins", InsNodes(v))
    BY <1>8, <1>14, <2>2, <2>3, InsChanged
  <2> QED BY <2>3, <2>4
<1> HIDE DEF s, t
<1>16. OfKind("ins", s[b + 1]) = {}
  BY <1>14 DEF OfKind, Range
<1>17. \A k \in Kinds : OfSeq(k, t) = OfSeq(k, with.blocks)
  <2>1. OfSeq("ins", t) = OfSeq("ins", with.blocks)
    BY <1>8, <1>10, <1>12, <1>15, <1>16 DEF OneKindChanged
  <2> QED BY <1>9, <1>15, <2>1 DEF OneKindChanged
<1>18. t \in Seq(BodyBlocks) /\ CleanBlocks(t)
  BY <1>15 DEF OneKindChanged
<1>19. /\ g \in Bodies(Logs) /\ g.blocks = t /\ g.gen = with.gen /\ g.rev.i = with.rev.i
       /\ g.erased = with.erased /\ g.tracks = with.tracks
  BY <1>5, <1>18 DEF Good, Bodies
<1>20. with.rev.i <= g.rev.i
  <2>1. with.rev.i \in Nat
    BY <1>5 DEF Good, Bodies
  <2> QED BY <1>19, <2>1
<1> HIDE DEF g
<1>21. Grows(with, g)
  <2>1. CleanBlocks(g.blocks) /\ \A k \in Kinds : OfSeq(k, g.blocks) = OfSeq(k, with.blocks)
    BY <1>17, <1>18, <1>19
  <2> QED BY <1>5, <1>19, <1>20, <2>1, SameNodes
<1>22. Good(f) /\ Grows(f, g)
  BY <1>4, <1>21, GrowsOn
<1>23. [with EXCEPT !.blocks[b].ins = SubSeq(@, 1, p - 1), !.blocks[b + 1].ins = v] = g
  <2>1. SubSeq(with.blocks[b].ins, 1, p - 1) = u
    BY <1>6 DEF u
  <2>2. b + 1 # b
    BY <1>3
  <2>3. PICK c : c = b + 1
    OBVIOUS
  <2>4. [with EXCEPT !.blocks[b].ins = SubSeq(@, 1, p - 1)] = [with EXCEPT !.blocks = s]
    BY <2>1 DEF s, WithIns
  <2>5. [[with EXCEPT !.blocks = s] EXCEPT !.blocks[c].ins = v] = [with EXCEPT !.blocks = WithIns(s, c, v)]
    <3>1. [with EXCEPT !.blocks = s].blocks = s
      BY <1>5 DEF Good, Bodies
    <3> QED BY <1>5, <3>1 DEF WithIns, Good, Bodies
  <2>6. [with EXCEPT !.blocks[b].ins = SubSeq(@, 1, p - 1), !.blocks[c].ins = v]
        = [[with EXCEPT !.blocks[b].ins = SubSeq(@, 1, p - 1)] EXCEPT !.blocks[c].ins = v]
    OBVIOUS
  <2> QED BY <2>3, <2>4, <2>5, <2>6 DEF g, t
<1> QED BY <1>2, <1>22, <1>23, DoneGrows

\* Removing a member, what it was does not matter.
LEMMA RemovedAlike ==
  ASSUME NEW S, NEW s \in Seq(S), NEW t \in Seq(S), NEW p \in DOMAIN s, DOMAIN t = DOMAIN s,
         \A c \in DOMAIN s : c # p => t[c] = s[c]
  PROVE  RemoveAt(t, p) = RemoveAt(s, p)
<1> DEFINE u == RemoveAt(s, p)
           v == RemoveAt(t, p)
<1>1. Len(s) \in Nat /\ DOMAIN s = 1..Len(s) /\ Len(t) = Len(s) /\ p \in 1..Len(s)
  BY LenProperties
<1>2. u \in Seq(S) /\ RemovedAs(u, s, p)
  BY <1>1, RemovedAt
<1>3. v \in Seq(S) /\ RemovedAs(v, t, p)
  BY <1>1, RemovedAt
<1> HIDE DEF u, v
<1>4. Len(u) = Len(s) - 1 /\ Len(v) = Len(s) - 1
  BY <1>1, <1>2, <1>3 DEF RemovedAs
<1>5. ASSUME NEW i \in 1..(Len(s) - 1)
      PROVE  v[i] = u[i]
  <2>1. CASE i < p
    <3>1. i \in DOMAIN s /\ i # p
      BY <1>1, <2>1
    <3> QED BY <1>2, <1>3, <1>4, <2>1, <3>1 DEF RemovedAs
  <2>2. CASE i >= p
    <3>1. i + 1 \in DOMAIN s /\ i + 1 # p /\ ~(i < p)
      BY <1>1, <2>2
    <3> QED BY <1>2, <1>3, <1>4, <3>1 DEF RemovedAs
  <2>3. i < p \/ i >= p
    BY <1>1
  <2> QED BY <2>1, <2>2, <2>3
<1>6. Len(v) = Len(u) /\ \A i \in 1..Len(v) : v[i] = u[i]
  BY <1>4, <1>5
<1>7. v = u
  BY <1>2, <1>3, <1>6, SeqEqual
<1> QED BY <1>7 DEF u, v

\* The instructions of one block after those of another.
LEMMA InstructionsJoined ==
  ASSUME NEW s \in Seq(Instructions), Distinct(s), NEW t \in Seq(Instructions), Distinct(t),
         InsNodes(s) \cap InsNodes(t) = {}
  PROVE  s \o t \in Seq(Instructions) /\ Distinct(s \o t) /\ InsNodes(s \o t) = InsNodes(s) \cup InsNodes(t)
<1> DEFINE u == s \o t
<1>1. Len(s) \in Nat /\ Len(t) \in Nat /\ DOMAIN s = 1..Len(s) /\ DOMAIN t = 1..Len(t)
  BY LenProperties
<1>2. /\ u \in Seq(Instructions) /\ Len(u) = Len(s) + Len(t)
      /\ \A i \in 1..(Len(s) + Len(t)) : u[i] = IF i <= Len(s) THEN s[i] ELSE t[i - Len(s)]
  BY ConcatProperties
<1> HIDE DEF u
<1>3. DOMAIN u = 1..(Len(s) + Len(t))
  BY <1>2, LenProperties
<1>4. ASSUME NEW i \in DOMAIN u
      PROVE  \/ i \in DOMAIN s /\ u[i] = s[i]
             \/ i - Len(s) \in DOMAIN t /\ i > Len(s) /\ u[i] = t[i - Len(s)]
  <2>1. PICK m \in Nat : m = Len(s)
    BY <1>1
  <2>2. PICK k \in Nat : k = Len(t)
    BY <1>1
  <2>3. i \in 1..(m + k)
    BY <1>3, <2>1, <2>2
  <2>4. u[i] = IF i <= m THEN s[i] ELSE t[i - m]
    BY <1>2, <2>1, <2>2, <2>3
  <2>5. CASE i <= m
    <3>1. i \in 1..m
      BY <2>3, <2>5
    <3>2. u[i] = s[i]
      BY <2>4, <2>5
    <3> QED BY <1>1, <2>1, <3>1, <3>2
  <2>6. CASE ~(i <= m)
    <3>1. i - m \in 1..k /\ i > m
      BY <2>3, <2>6
    <3>2. u[i] = t[i - m]
      BY <2>4, <2>6
    <3> QED BY <1>1, <2>1, <2>2, <3>1, <3>2
  <2> QED BY <2>5, <2>6
<1>5. \A i \in DOMAIN s : i \in DOMAIN u /\ u[i] = s[i]
  BY <1>1, <1>2, <1>3
<1>6. ASSUME NEW j \in DOMAIN t
      PROVE  Len(s) + j \in DOMAIN u /\ u[Len(s) + j] = t[j]
  <2>1. PICK m \in Nat : m = Len(s)
    BY <1>1
  <2>2. PICK k \in Nat : k = Len(t)
    BY <1>1
  <2>3. j \in 1..k
    BY <1>1, <2>2
  <2>4. m + j \in 1..(m + k) /\ ~(m + j <= m) /\ (m + j) - m = j
    BY <2>3
  <2>5. u[m + j] = t[j]
    BY <1>2, <2>1, <2>2, <2>4
  <2> QED BY <1>3, <2>1, <2>2, <2>4, <2>5
<1>7. \A i \in DOMAIN s : s[i].n \in InsNodes(s)
  BY DEF InsNodes, Range
<1>8. \A i \in DOMAIN t : t[i].n \in InsNodes(t)
  BY DEF InsNodes, Range
<1>9. Distinct(u)
  <2> SUFFICES ASSUME NEW i \in DOMAIN u, NEW j \in DOMAIN u, u[i].n = u[j].n
               PROVE  i = j
    BY DEF Distinct
  <2>1. i \in Int /\ j \in Int
    BY <1>1, <1>3
  <2>2. CASE i \in DOMAIN s /\ u[i] = s[i]
    <3>1. CASE j \in DOMAIN s /\ u[j] = s[j]
      BY <2>2, <3>1 DEF Distinct
    <3>2. CASE j - Len(s) \in DOMAIN t /\ j > Len(s) /\ u[j] = t[j - Len(s)]
      BY <1>7, <1>8, <2>2, <3>2
    <3> QED BY <1>4, <3>1, <3>2
  <2>3. CASE i - Len(s) \in DOMAIN t /\ i > Len(s) /\ u[i] = t[i - Len(s)]
    <3>1. CASE j \in DOMAIN s /\ u[j] = s[j]
      BY <1>7, <1>8, <2>3, <3>1
    <3>2. CASE j - Len(s) \in DOMAIN t /\ j > Len(s) /\ u[j] = t[j - Len(s)]
      <4>1. i - Len(s) = j - Len(s)
        BY <2>3, <3>2 DEF Distinct
      <4> QED BY <1>1, <2>1, <4>1
    <3> QED BY <1>4, <3>1, <3>2
  <2> QED BY <1>4, <2>2, <2>3
<1>10. ASSUME NEW n \in InsNodes(u)
       PROVE  n \in InsNodes(s) \cup InsNodes(t)
  <2>1. PICK i \in DOMAIN u : n = u[i].n
    BY <1>10 DEF InsNodes, Range
  <2> QED BY <1>4, <1>7, <1>8, <2>1
<1>11. \A i \in DOMAIN u : u[i].n \in InsNodes(u)
  BY DEF InsNodes, Range
<1>12. InsNodes(s) \subseteq InsNodes(u)
  <2>1. \A n \in InsNodes(s) : \E i \in DOMAIN s : n = s[i].n
    BY DEF InsNodes, Range
  <2> QED BY <1>5, <1>11, <2>1
<1>13. InsNodes(t) \subseteq InsNodes(u)
  <2>1. \A n \in InsNodes(t) : \E i \in DOMAIN t : n = t[i].n
    BY DEF InsNodes, Range
  <2> QED BY <1>6, <1>11, <2>1
<1>14. InsNodes(u) = InsNodes(s) \cup InsNodes(t)
  BY <1>10, <1>12, <1>13
<1> QED BY <1>2, <1>9, <1>14 DEF u

\* MergeFallthrough: a block goes, its instructions stay.
LEMMA MergeSound ==
  ASSUME NEW f, Good(f), NEW b \in DOMAIN f.blocks
  PROVE  /\ Sound(f, MergeFallthrough(f, b))
         /\ MergeFallthrough(f, b).ok => b + 1 \in DOMAIN f.blocks
<1>1. CASE b = Len(f.blocks) \/ f.blocks[b + 1].labels # <<>>
  <2>1. MergeFallthrough(f, b) = Refused(f) /\ Refused(f).ok = FALSE
    BY <1>1 DEF MergeFallthrough, Refused
  <2> QED BY <2>1, RefusedSound
<1>2. CASE b # Len(f.blocks) /\ f.blocks[b + 1].labels = <<>>
  <2>1. PICK c : c = b + 1
    OBVIOUS
  <2> DEFINE i == f.blocks[b].ins
             j == f.blocks[c].ins
             joined == i \o j
             w == WithIns(f.blocks, c, <<>>)
             s == WithIns(w, b, joined)
             t == RemoveAt(s, c)
             r == WithIns(f.blocks, b, joined)
             R == {f.blocks[c].n}
  <2>2. c \in DOMAIN f.blocks /\ c # b
    <3>1. PICK m \in Nat : m = Len(f.blocks)
      BY GoodBlocks
    <3>2. b \in 1..m
      BY <3>1, GoodBlocks
    <3>3. b + 1 \in 1..m /\ b + 1 # b
      BY <1>2, <3>1, <3>2
    <3> QED BY <2>1, <3>1, <3>3, GoodBlocks
  <2>3. f \in Bodies(Logs) /\ f.blocks \in Seq(BodyBlocks) /\ CleanBlocks(f.blocks)
    BY GoodBlocks DEF Good
  <2>4. /\ i \in Seq(Instructions) /\ Distinct(i) /\ InsNodes(i) = OfKind("ins", f.blocks[b])
        /\ j \in Seq(Instructions) /\ Distinct(j) /\ InsNodes(j) = OfKind("ins", f.blocks[c])
        /\ f.blocks[c] \in BodyBlocks /\ f.blocks[b] \in BodyBlocks
    BY <2>2, GoodBlocks
  <2>5. InsNodes(i) \cap InsNodes(j) = {}
    <3>1. "ins" \in Kinds
      BY DEF Kinds
    <3>2. InsNodes(i) \subseteq NodesIn(f.blocks[b]) /\ InsNodes(j) \subseteq NodesIn(f.blocks[c])
      BY <2>4, <3>1, KindsOfBlock
    <3>3. NodesIn(f.blocks[b]) \cap NodesIn(f.blocks[c]) = {}
      BY <2>2, <2>3 DEF CleanBlocks
    <3> QED BY <3>2, <3>3
  <2> HIDE DEF i, j
  <2>6. joined \in Seq(Instructions) /\ Distinct(joined) /\ InsNodes(joined) = InsNodes(i) \cup InsNodes(j)
    BY <2>4, <2>5, InstructionsJoined
  <2> HIDE DEF joined
  <2>7. OneKindChanged(w, f.blocks, c, [f.blocks[c] EXCEPT !.ins = <<>>], "ins", {})
    <3>1. PICK e : e = <<>>
      OBVIOUS
    <3>2. e \in Seq(Instructions) /\ Distinct(e) /\ InsNodes(e) = {}
      BY <3>1, EmptySeq DEF Distinct, InsNodes, Range
    <3>3. PICK X : X = {}
      OBVIOUS
    <3>4. InsNodes(e) \subseteq OfKind("ins", f.blocks[c]) \cup X /\ X \cap NodesSeq(f.blocks) = {}
      BY <3>2, <3>3
    <3>5. OneKindChanged(WithIns(f.blocks, c, e), f.blocks, c, [f.blocks[c] EXCEPT !.ins = e], "ins", InsNodes(e))
      BY <2>2, <2>3, <3>2, <3>4, InsChanged
    <3> QED BY <3>1, <3>2, <3>5
  <2>8. /\ w \in Seq(BodyBlocks) /\ CleanBlocks(w) /\ b \in DOMAIN w /\ c \in DOMAIN w /\ DOMAIN w = DOMAIN f.blocks
        /\ w[b] = f.blocks[b] /\ w[c] = [f.blocks[c] EXCEPT !.ins = <<>>]
        /\ \A d \in DOMAIN w : d # c => w[d] = f.blocks[d]
        /\ OfSeq("ins", w) = OfSeq("ins", f.blocks) \ InsNodes(j)
        /\ \A k \in Kinds : k # "ins" => OfSeq(k, w) = OfSeq(k, f.blocks)
    BY <2>2, <2>4, <2>7 DEF OneKindChanged
  <2> HIDE DEF w
  <2>9. InsNodes(j) \cap NodesSeq(w) = {}
    <3>1. InsNodes(j) \subseteq OfSeq("ins", f.blocks)
      BY <2>2, <2>4 DEF OfSeq
    <3>2. "block" \in Kinds /\ "label" \in Kinds /\ "ins" \in Kinds /\ "block" # "ins" /\ "label" # "ins"
      BY DEF Kinds
    <3>3. InsNodes(j) \cap OfSeq("block", f.blocks) = {}
      BY <2>3, <3>1, <3>2, OneKind
    <3>4. InsNodes(j) \cap OfSeq("label", f.blocks) = {}
      BY <2>3, <3>1, <3>2, OneKind
    <3> QED BY <2>8, <3>2, <3>3, <3>4, ThreeKinds
  <2>10. OneKindChanged(s, w, b, [w[b] EXCEPT !.ins = joined], "ins", InsNodes(joined))
    <3>1. PICK X : X = InsNodes(j)
      OBVIOUS
    <3>2. InsNodes(joined) \subseteq OfKind("ins", w[b]) \cup X /\ X \cap NodesSeq(w) = {}
      BY <2>4, <2>6, <2>8, <2>9, <3>1
    <3> QED BY <2>6, <2>8, <3>2, InsChanged
  <2>11. /\ s \in Seq(BodyBlocks) /\ CleanBlocks(s) /\ c \in DOMAIN s /\ DOMAIN s = DOMAIN f.blocks
         /\ s[c] = [f.blocks[c] EXCEPT !.ins = <<>>]
         /\ s[b] = [f.blocks[b] EXCEPT !.ins = joined]
         /\ \A d \in DOMAIN s : d # c /\ d # b => s[d] = f.blocks[d]
         /\ \A k \in Kinds : k # "ins" => OfSeq(k, s) = OfSeq(k, f.blocks)
         /\ OfSeq("ins", s) = (OfSeq("ins", w) \ InsNodes(i)) \cup InsNodes(joined)
    BY <2>2, <2>4, <2>8, <2>10 DEF OneKindChanged
  <2>12. OfSeq("ins", s) = OfSeq("ins", f.blocks)
    <3>1. InsNodes(i) \subseteq OfSeq("ins", f.blocks) /\ InsNodes(j) \subseteq OfSeq("ins", f.blocks)
      BY <2>2, <2>4 DEF OfSeq
    <3> QED BY <2>6, <2>8, <2>11, <3>1
  <2> HIDE DEF s
  <2>13. OfKind("block", s[c]) = R /\ OfKind("label", s[c]) = {} /\ OfKind("ins", s[c]) = {}
    <3>1. s[c].n = f.blocks[c].n /\ s[c].labels = <<>> /\ s[c].ins = <<>>
      BY <1>2, <2>1, <2>4, <2>11 DEF BodyBlocks
    <3> QED BY <3>1 DEF OfKind, Range
  <2>14. NodesIn(s[c]) = R
    <3>1. \A k \in Kinds : OfKind(k, s[c]) \subseteq R
      BY <2>13 DEF Kinds
    <3>2. "block" \in Kinds
      BY DEF Kinds
    <3> QED BY <2>13, <3>1, <3>2, KindsOfBlock
  <2>15. /\ t \in Seq(BodyBlocks) /\ CleanBlocks(t)
         /\ \A k \in Kinds : OfSeq(k, t) = OfSeq(k, s) \ OfKind(k, s[c])
         /\ NodesSeq(t) = NodesSeq(s) \ NodesIn(s[c])
    BY <2>11, BlockRemoved
  <2> HIDE DEF t
  <2>16. \A k \in Kinds : OfSeq(k, t) \subseteq OfSeq(k, f.blocks)
    BY <2>11, <2>12, <2>15
  <2>17. R \in SUBSET LiveNodes /\ R = NodesSeq(f.blocks) \ NodesSeq(t)
    <3>1. f.blocks[c].n \in LiveNodes
      BY <2>4 DEF BodyBlocks
    <3>2. NodesSeq(s) = NodesSeq(f.blocks)
      BY <2>11, <2>12, ThreeKinds DEF Kinds
    <3>3. R \subseteq NodesSeq(f.blocks)
      BY <2>2 DEF NodesSeq, NodesIn
    <3> QED BY <2>14, <2>15, <3>1, <3>2, <3>3
  <2> HIDE DEF R
  <2>18. Shrinks(f, Published(f, t, 0, Erased(f, R).erased, TRUE))
    BY <2>15, <2>16, <2>17, PublishedFewer
  <2>19. t = RemoveAt(r, c)
    <3>1. r \in Seq(BodyBlocks) /\ DOMAIN r = DOMAIN f.blocks
          /\ r[b] = [f.blocks[b] EXCEPT !.ins = joined] /\ \A d \in DOMAIN f.blocks : d # b => r[d] = f.blocks[d]
      <4>1. PICK y : y = [f.blocks[b] EXCEPT !.ins = joined]
        OBVIOUS
      <4>2. y \in BodyBlocks
        BY <2>4, <2>6, <4>1 DEF BodyBlocks
      <4>3. PICK q : q = [f.blocks EXCEPT ![b] = y]
        OBVIOUS
      <4>4. DOMAIN f.blocks = 1..Len(f.blocks)
        BY GoodBlocks
      <4>5. q \in Seq(BodyBlocks) /\ DOMAIN q = DOMAIN f.blocks
        BY <2>3, <4>2, <4>3, <4>4, ExceptSeq
      <4>6. q[b] = y /\ \A d \in DOMAIN f.blocks : d # b => q[d] = f.blocks[d]
        BY <4>3
      <4>7. r = q
        BY <4>1, <4>3 DEF WithIns
      <4> HIDE DEF r
      <4> QED BY <4>1, <4>5, <4>6, <4>7
    <3>2. \A d \in DOMAIN s : d # c => r[d] = s[d]
      <4> HIDE DEF r
      <4> QED BY <2>11, <3>1
    <3> HIDE DEF r
    <3>3. RemoveAt(r, c) = RemoveAt(s, c)
      BY <2>11, <3>1, <3>2, RemovedAlike
    <3> QED BY <3>3 DEF t
  <2>20. PICK h : h = Erased(f, R)
    OBVIOUS
  <2>21. /\ Changed([h EXCEPT !.blocks = t], TRUE) = Published(f, t, 0, Erased(f, R).erased, TRUE)
         /\ h.blocks = f.blocks
    BY <2>17, <2>20, ErasedForm
  <2>22. MergeFallthrough(f, b) = Refused(f)
         \/ MergeFallthrough(f, b) = Done(Changed([h EXCEPT !.blocks = RemoveAt(r, c)], TRUE))
    BY <2>1, <2>20 DEF MergeFallthrough, R, WithIns, joined, i, j
  <2>23. [h EXCEPT !.blocks = RemoveAt(r, c)] = [h EXCEPT !.blocks = t]
    BY <2>19
  <2> HIDE DEF r
  <2>24. Shrinks(f, Changed([h EXCEPT !.blocks = t], TRUE))
    BY <2>18, <2>21
  <2>25. PICK q : q = Changed([h EXCEPT !.blocks = t], TRUE)
    OBVIOUS
  <2>26. Evolves(f, q)
    BY <2>24, <2>25 DEF Evolves
  <2>27. MergeFallthrough(f, b) = Refused(f) \/ MergeFallthrough(f, b) = Done(q)
    BY <2>22, <2>23, <2>25
  <2>28. Sound(f, MergeFallthrough(f, b))
    BY <2>26, <2>27, RefusedSound, DoneSound
  <2> QED BY <2>1, <2>2, <2>28
<1> QED BY <1>1, <1>2

\* A block moves to another place.
LEMMA MoveBlockSound ==
  ASSUME NEW f, Good(f), NEW b \in DOMAIN f.blocks, NEW before \in 1..(Len(f.blocks) + 1)
  PROVE  Sound(f, MoveBlockBefore(f, b, before))
<1>1. CASE before \in {b, b + 1}
  <2>1. MoveBlockBefore(f, b, before) = Done(f)
    BY <1>1 DEF MoveBlockBefore
  <2> QED BY <2>1, DoneSame
<1>2. CASE before \notin {b, b + 1}
  <2>1. f \in Bodies(Logs) /\ f.blocks \in Seq(BodyBlocks) /\ CleanBlocks(f.blocks)
    BY GoodBlocks DEF Good
  <2>2. PICK y : y = f.blocks[b]
    OBVIOUS
  <2>3. y \in BodyBlocks /\ CleanBlock(y)
    BY <2>2, GoodBlocks
  <2>4. PICK w : w = RemoveAt(f.blocks, b)
    OBVIOUS
  <2>5. /\ w \in Seq(BodyBlocks) /\ CleanBlocks(w)
        /\ \A k \in Kinds : OfSeq(k, w) = OfSeq(k, f.blocks) \ OfKind(k, y)
        /\ NodesSeq(w) = NodesSeq(f.blocks) \ NodesIn(y)
    BY <2>1, <2>2, <2>4, BlockRemoved
  <2>6. Len(w) = Len(f.blocks) - 1
    BY <2>1, <2>4, GoodBlocks, RemovedAt DEF RemovedAs
  <2>7. PICK m \in Nat : m = Len(f.blocks)
    BY GoodBlocks
  <2>8. b \in 1..m
    BY <2>7, GoodBlocks
  <2>9. PICK p : p = IF before < b THEN before ELSE before - 1
    OBVIOUS
  <2>10. p \in 1..m
    <3>1. before \in 1..(m + 1)
      BY <2>7
    <3>2. CASE before < b
      BY <2>8, <2>9, <3>1, <3>2
    <3>3. CASE ~(before < b)
      <4>1. before - 1 \in 1..m
        BY <1>2, <2>8, <3>1, <3>3
      <4> QED BY <2>9, <3>3, <4>1
    <3> QED BY <3>2, <3>3
  <2>11. p \in 1..(Len(w) + 1)
    BY <2>6, <2>7, <2>10
  <2>12. PICK t : t = InsertAt(w, p, y)
    OBVIOUS
  <2>13. NodesIn(y) \cap NodesSeq(w) = {}
    BY <2>5
  <2>14. /\ t \in Seq(BodyBlocks) /\ CleanBlocks(t)
         /\ \A k \in Kinds : OfSeq(k, t) = OfSeq(k, w) \cup OfKind(k, y)
    BY <2>3, <2>5, <2>11, <2>12, <2>13, BlockInserted
  <2>15. \A k \in Kinds : OfSeq(k, t) = OfSeq(k, f.blocks)
    <3>1. \A k \in Kinds : OfKind(k, y) \subseteq OfSeq(k, f.blocks)
      BY <2>2 DEF OfSeq
    <3> QED BY <2>5, <2>14, <3>1
  <2>16. Grows(f, Published(f, t, 0, f.erased, TRUE))
    BY <2>14, <2>15, PublishedSame
  <2>17. Changed([f EXCEPT !.blocks = t], TRUE) = Published(f, t, 0, f.erased, TRUE)
    BY <2>1, BlocksForm
  <2>18. MoveBlockBefore(f, b, before) = Done(Changed([f EXCEPT !.blocks = t], TRUE))
    BY <1>2, <2>2, <2>4, <2>9, <2>12 DEF MoveBlockBefore
  <2> QED BY <2>16, <2>17, <2>18, DoneGrows
<1> QED BY <1>1, <1>2

\* The scope of a block changes, or is what it was.
LEMMA ScopeSound ==
  ASSUME NEW f, Good(f), NEW b \in DOMAIN f.blocks, NEW scope \in {0, 1}
  PROVE  Sound(f, SetStackScope(f, b, scope))
<1>1. f \in Bodies(Logs) /\ f.blocks \in Seq(BodyBlocks) /\ CleanBlocks(f.blocks)
  BY GoodBlocks DEF Good
<1>2. f.blocks[b] \in BodyBlocks /\ CleanBlock(f.blocks[b])
  BY GoodBlocks
<1>3. PICK y : y = [f.blocks[b] EXCEPT !.scope = scope]
  OBVIOUS
<1>4. y \in BodyBlocks /\ y.n = f.blocks[b].n /\ y.labels = f.blocks[b].labels /\ y.ins = f.blocks[b].ins
  BY <1>2, <1>3 DEF BodyBlocks
<1>5. \A k \in Kinds : OfKind(k, y) = OfKind(k, f.blocks[b])
  BY <1>4 DEF OfKind
<1>6. CleanBlock(y) /\ NodesIn(y) = NodesIn(f.blocks[b])
  BY <1>2, <1>4, <1>5 DEF CleanBlock, NodesIn
<1>7. PICK t : t = [f.blocks EXCEPT ![b] = y]
  OBVIOUS
<1>8. PICK X : X = {}
  OBVIOUS
<1>9. Replaced([f.blocks EXCEPT ![b] = y], f.blocks, b, y)
  <2>1. NodesIn(y) \subseteq NodesIn(f.blocks[b]) \cup X /\ X \cap NodesSeq(f.blocks) = {}
    BY <1>6, <1>8
  <2> QED BY <1>1, <1>4, <1>6, <2>1, BlockReplaced
<1>10. t \in Seq(BodyBlocks) /\ CleanBlocks(t) /\ \A k \in Kinds : OfSeq(k, t) = OfSeq(k, f.blocks)
  <2>1. \A k \in Kinds : OfKind(k, f.blocks[b]) \subseteq OfSeq(k, f.blocks)
    BY DEF OfSeq
  <2> QED BY <1>5, <1>7, <1>9, <2>1 DEF Replaced
<1>11. Grows(f, Published(f, t, 0, f.erased, TRUE))
  BY <1>10, PublishedSame
<1>12. Changed([f EXCEPT !.blocks = t], TRUE) = Published(f, t, 0, f.erased, TRUE)
  BY <1>1, BlocksForm
<1>13. [f EXCEPT !.blocks[b].scope = scope] = [f EXCEPT !.blocks = t]
  BY <1>1, <1>3, <1>7 DEF Bodies
<1>14. SetStackScope(f, b, scope) = Done(f) \/ SetStackScope(f, b, scope) = Done(Changed([f EXCEPT !.blocks = t], TRUE))
  BY <1>13 DEF SetStackScope
<1> QED BY <1>11, <1>12, <1>14, DoneGrows, DoneSame

\* A datum with the address of a label.
LEMMA DataSound ==
  ASSUME NEW f, Good(f), NEW l \in LiveNodes
  PROVE  Grows(f, DefineLabelData(f, l))
<1> DEFINE g == DefineLabelData(f, l)
<1>1. f \in Bodies(Logs)
  BY DEF Good
<1>2. PICK e : e = f.data \cup {l}
  OBVIOUS
<1>3. PICK c : c = f.rev.c + 1
  OBVIOUS
<1>4. e \in SUBSET LiveNodes /\ c \in Nat
  BY <1>1, <1>2, <1>3 DEF Bodies
<1>5. g = [f EXCEPT !.data = e, !.rev.c = c]
  BY <1>2, <1>3 DEF DefineLabelData
<1>6. /\ g \in Bodies(Logs) /\ g.blocks = f.blocks /\ g.gen = f.gen /\ g.rev.i = f.rev.i /\ g.erased = f.erased
      /\ g.tracks = f.tracks
  BY <1>1, <1>4, <1>5, ZenonT(30) DEF Bodies
<1> HIDE DEF g
<1>7. f.rev.i <= g.rev.i
  <2>1. f.rev.i \in Nat
    BY <1>1 DEF Bodies
  <2> QED BY <1>6, <2>1
<1>8. CleanBlocks(g.blocks) /\ \A k \in Kinds : OfSeq(k, g.blocks) = OfSeq(k, f.blocks)
  BY <1>6, GoodBlocks
<1> QED BY <1>6, <1>7, <1>8, SameNodes DEF g

\* Registers get storage, or are refused it.
LEMMA MaterializeSound ==
  ASSUME NEW f, Good(f), NEW rs \in SUBSET Registers
  PROVE  Sound(f, MaterializeStorage(f, rs))
<1> DEFINE k == RegistersChanged([f EXCEPT !.backed = @ \cup rs])
           g == Changed(k, FALSE)
<1>1. f \in Bodies(Logs)
  BY DEF Good
<1>2. PICK e : e = f.backed \cup rs
  OBVIOUS
<1>3. PICK i : i = f.rev.i + 1
  OBVIOUS
<1>4. PICK r : r = f.rev.r + 1
  OBVIOUS
<1>5. e \in SUBSET Registers /\ i \in Nat /\ r \in Nat
  BY <1>1, <1>2, <1>3, <1>4 DEF Bodies
<1>6. k = [f EXCEPT !.backed = e, !.rev.r = r]
  BY <1>1, <1>2, <1>4 DEF RegistersChanged, Bodies
<1>7. g = [f EXCEPT !.backed = e, !.rev.r = r, !.rev.i = i]
  <2>1. k.rev = [f.rev EXCEPT !.r = r] /\ k.rev.i = f.rev.i /\ k.rev.c = f.rev.c
    BY <1>1, <1>6 DEF Bodies
  <2> HIDE DEF k
  <2>2. g = [k EXCEPT !.rev.i = i]
    <3>1. g = [k EXCEPT !.rev.i = k.rev.i + 1, !.rev.c = k.rev.c]
      BY DEF Changed
    <3>2. k \in Bodies(Logs)
      BY <1>1, <1>5, <1>6 DEF Bodies
    <3> QED BY <1>3, <2>1, <3>1, <3>2 DEF Bodies
  <2> QED BY <1>1, <1>6, <2>2 DEF Bodies
<1>8. /\ g \in Bodies(Logs) /\ g.blocks = f.blocks /\ g.gen = f.gen /\ g.rev.i = i /\ g.erased = f.erased
      /\ g.tracks = f.tracks
  <2>1. PICK v : v = [i |-> i, c |-> f.rev.c, r |-> r]
    OBVIOUS
  <2>2. v \in [i : Nat, c : Nat, r : Nat] /\ v.i = i
    BY <1>1, <1>5, <2>1 DEF Bodies
  <2>3. [[f.rev EXCEPT !.r = r] EXCEPT !.i = i] = v
    <3>1. PICK w \in [i : Nat, c : Nat, r : Nat] : w = f.rev
      BY <1>1 DEF Bodies
    <3>2. PICK x : x = [[w EXCEPT !.r = r] EXCEPT !.i = i]
      OBVIOUS
    <3>3. x \in [i : Nat, c : Nat, r : Nat] /\ x.i = i /\ x.c = w.c /\ x.r = r
      BY <1>5, <3>1, <3>2
    <3>4. v.c = w.c /\ v.r = r
      BY <2>1, <3>1
    <3>5. x = v
      BY <2>2, <3>3, <3>4
    <3> QED BY <3>1, <3>2, <3>5
  <2> HIDE DEF g, k
  <2>4. g = [f EXCEPT !.backed = e, !.rev = v]
    BY <1>1, <1>7, <2>3 DEF Bodies
  <2> QED BY <1>1, <1>5, <2>2, <2>4 DEF Bodies
<1> HIDE DEF g
<1>9. f.rev.i <= g.rev.i
  <2>1. f.rev.i \in Nat
    BY <1>1 DEF Bodies
  <2> QED BY <1>3, <1>8, <2>1
<1>10. CleanBlocks(g.blocks) /\ \A x \in Kinds : OfSeq(x, g.blocks) = OfSeq(x, f.blocks)
  BY <1>8, GoodBlocks
<1>11. Grows(f, g)
  BY <1>8, <1>9, <1>10, SameNodes
<1>12. MaterializeStorage(f, rs) = Refused(f) \/ MaterializeStorage(f, rs) = Done(f) \/ MaterializeStorage(f, rs) = Done(g)
  BY DEF MaterializeStorage, g
<1> QED BY <1>11, <1>12, RefusedSound, DoneSame, DoneGrows

\* Blocks that hold at most what those of another sequence hold, place by place.
BlocksWithin(t, s) ==
  /\ t \in Seq(BodyBlocks) /\ DOMAIN t = DOMAIN s
  /\ \A b \in DOMAIN s : CleanBlock(t[b]) /\ \A k \in Kinds : OfKind(k, t[b]) \subseteq OfKind(k, s[b])

\* Blocks that keep some of their nodes.
LEMMA WithinClean ==
  ASSUME NEW s, CleanBlocks(s), NEW t, BlocksWithin(t, s)
  PROVE  CleanBlocks(t) /\ \A k \in Kinds : OfSeq(k, t) \subseteq OfSeq(k, s)
<1>1. ASSUME NEW b \in DOMAIN s
      PROVE  NodesIn(t[b]) \subseteq NodesIn(s[b])
  <2> SUFFICES ASSUME NEW n \in NodesIn(t[b])
               PROVE  n \in NodesIn(s[b])
    OBVIOUS
  <2>1. PICK k \in Kinds : n \in OfKind(k, t[b])
    BY KindsOfBlock
  <2>2. n \in OfKind(k, s[b])
    BY <2>1 DEF BlocksWithin
  <2> QED BY <2>2, KindsOfBlock
<1>2. CleanBlocks(t)
  <2>1. \A b \in DOMAIN t : CleanBlock(t[b])
    BY DEF BlocksWithin
  <2>2. \A b, c \in DOMAIN t : b # c => NodesIn(t[b]) \cap NodesIn(t[c]) = {}
    BY <1>1 DEF BlocksWithin, CleanBlocks
  <2> QED BY <2>1, <2>2 DEF CleanBlocks
<1>3. \A k \in Kinds : OfSeq(k, t) \subseteq OfSeq(k, s)
  BY DEF OfSeq, BlocksWithin
<1> QED BY <1>2, <1>3

\* A function over the places of a sequence is a sequence.
LEMMA SameLength ==
  ASSUME NEW S, NEW n \in Nat, NEW t, DOMAIN t = 1..n, t = [i \in DOMAIN t |-> t[i]], \A i \in 1..n : t[i] \in S
  PROVE  t \in Seq(S)
<1>1. t \in [1..n -> S]
  OBVIOUS
<1> QED BY <1>1, SeqDef

-----------------------------------------------------------------------------
\* Uses of one register renamed to another.
Uses(i, old, new) == [i EXCEPT !.u = IF i.u = old THEN new ELSE i.u, !.w = IF i.w = old THEN new ELSE i.w]
UsesOf(s, old, new) == [i \in DOMAIN s |-> Uses(s[i], old, new)]

\* Reading another register changes no node.
LEMMA UsesRenamed ==
  ASSUME NEW s \in Seq(Instructions), Distinct(s), NEW old \in Registers, NEW new \in Registers
  PROVE  /\ UsesOf(s, old, new) \in Seq(Instructions) /\ Distinct(UsesOf(s, old, new))
         /\ InsNodes(UsesOf(s, old, new)) = InsNodes(s)
<1> DEFINE t == UsesOf(s, old, new)
<1>1. PICK n \in Nat : n = Len(s)
  BY LenProperties
<1>2. DOMAIN s = 1..n /\ \A i \in DOMAIN s : s[i] \in Instructions
  BY <1>1, LenProperties, ElementOfSeq
<1>3. DOMAIN t = DOMAIN s /\ \A i \in DOMAIN s : t[i] = Uses(s[i], old, new)
  BY DEF UsesOf
<1>4. \A x \in Instructions : Uses(x, old, new) \in Instructions /\ Uses(x, old, new).n = x.n
  BY DEF Uses, Instructions, Operands
<1>5. t = [i \in DOMAIN t |-> t[i]]
  BY DEF UsesOf
<1> HIDE DEF t
<1>6. \A i \in 1..n : t[i] \in Instructions
  BY <1>2, <1>3, <1>4
<1>7. t \in Seq(Instructions)
  BY <1>2, <1>3, <1>5, <1>6, SameLength
<1>8. \A i \in DOMAIN s : t[i].n = s[i].n
  BY <1>2, <1>3, <1>4
<1>9. Distinct(t)
  BY <1>3, <1>8 DEF Distinct
<1>10. InsNodes(t) = InsNodes(s)
  <2>1. ASSUME NEW x \in InsNodes(t)
        PROVE  x \in InsNodes(s)
    <3>1. PICK i \in DOMAIN t : x = t[i].n
      BY <2>1 DEF InsNodes, Range
    <3> QED BY <1>3, <1>8, <3>1 DEF InsNodes, Range
  <2>2. ASSUME NEW x \in InsNodes(s)
        PROVE  x \in InsNodes(t)
    <3>1. PICK i \in DOMAIN s : x = s[i].n
      BY <2>2 DEF InsNodes, Range
    <3> QED BY <1>3, <1>8, <3>1 DEF InsNodes, Range
  <2> QED BY <2>1, <2>2
<1> QED BY <1>7, <1>9, <1>10 DEF t

\* Renaming the uses of a register keeps all nodes.
LEMMA ReplaceUsesSound ==
  ASSUME NEW f, Good(f), NEW old \in Registers, NEW new \in Registers
  PROVE  Sound(f, ReplaceUses(f, old, new))
<1> DEFINE s == f.blocks
           ins(b) == UsesOf(s[b].ins, old, new)
           t == [b \in DOMAIN s |-> [s[b] EXCEPT !.ins = ins(b)]]
<1>1. f \in Bodies(Logs) /\ s \in Seq(BodyBlocks) /\ CleanBlocks(s)
  BY GoodBlocks DEF Good
<1>2. PICK m \in Nat : m = Len(s)
  BY GoodBlocks
<1>3. DOMAIN s = 1..m
  BY <1>2, GoodBlocks
<1>4. ASSUME NEW b \in DOMAIN s
      PROVE  t[b] \in BodyBlocks /\ CleanBlock(t[b]) /\ \A k \in Kinds : OfKind(k, t[b]) = OfKind(k, s[b])
  <2>1. /\ s[b] \in BodyBlocks /\ CleanBlock(s[b]) /\ Distinct(s[b].ins) /\ s[b].ins \in Seq(Instructions)
        /\ InsNodes(s[b].ins) = OfKind("ins", s[b])
    BY GoodBlocks
  <2>2. PICK u : u = ins(b)
    OBVIOUS
  <2>3. u \in Seq(Instructions) /\ Distinct(u) /\ InsNodes(u) = OfKind("ins", s[b])
    BY <2>1, <2>2, UsesRenamed
  <2>4. t[b] = [s[b] EXCEPT !.ins = u]
    BY <2>2
  <2> HIDE DEF s, t
  <2>5. OfKind("ins", s[b]) \cap (OfKind("block", s[b]) \cup OfKind("label", s[b])) = {}
    BY <2>1 DEF CleanBlock, Kinds
  <2>6. /\ [s[b] EXCEPT !.ins = u] \in BodyBlocks /\ CleanBlock([s[b] EXCEPT !.ins = u])
        /\ OfKind("ins", [s[b] EXCEPT !.ins = u]) = InsNodes(u)
        /\ \A k \in Kinds : k # "ins" => OfKind(k, [s[b] EXCEPT !.ins = u]) = OfKind(k, s[b])
    BY <2>1, <2>3, <2>5, WithInstructions
  <2> QED BY <2>3, <2>4, <2>6
<1>5. DOMAIN t = 1..m /\ t = [b \in DOMAIN t |-> t[b]]
  BY <1>3
<1>6. Changed([f EXCEPT !.blocks = t], FALSE) = Published(f, t, 0, f.erased, FALSE)
  BY <1>1, BlocksForm
<1>7. \/ ReplaceUses(f, old, new) = Refused(f) \/ ReplaceUses(f, old, new) = Done(f)
      \/ ReplaceUses(f, old, new) = Done(Changed([f EXCEPT !.blocks = t], FALSE))
  BY DEF ReplaceUses, UsesOf, Uses
<1> HIDE DEF s, t
<1>8. t \in Seq(BodyBlocks)
  <2>1. \A b \in 1..m : t[b] \in BodyBlocks
    BY <1>3, <1>4
  <2> QED BY <1>5, <2>1, SameLength
<1>9. BlocksWithin(t, s)
  BY <1>3, <1>4, <1>5, <1>8 DEF BlocksWithin
<1>10. CleanBlocks(t)
  BY <1>1, <1>9, WithinClean
<1>11. \A k \in Kinds : OfSeq(k, t) = OfSeq(k, s)
  BY <1>3, <1>4, <1>5 DEF OfSeq
<1>12. Grows(f, Published(f, t, 0, f.erased, FALSE))
  BY <1>8, <1>10, <1>11, PublishedSame DEF s
<1> QED BY <1>6, <1>7, <1>12, RefusedSound, DoneSame, DoneGrows

-----------------------------------------------------------------------------
\* The labels of a block without some.
Without(s, R) == Remaining(s, {p \in DOMAIN s : s[p] \notin R})

\* Without some labels, the others stay.
LEMMA LabelsRemain ==
  ASSUME NEW s \in Seq(LiveNodes), \A i, j \in DOMAIN s : s[i] = s[j] => i = j, NEW R
  PROVE  LET t == Without(s, R)
         IN  /\ t \in Seq(LiveNodes) /\ \A i, j \in DOMAIN t : t[i] = t[j] => i = j
             /\ Range(t) = Range(s) \ R
<1> DEFINE I == {p \in DOMAIN s : s[p] \notin R}
           t == Remaining(s, I)
<1>1. DOMAIN s = 1..Len(s)
  BY LenProperties
<1>2. t \in Seq(LiveNodes) /\ Draws(t, s, I \cap (1..Len(s)))
  BY RemainingDrawn
<1>3. I \cap (1..Len(s)) = I
  BY <1>1
<1> HIDE DEF t
<1>4. DOMAIN t = 1..Len(t)
  BY <1>2, LenProperties
<1>5. PICK w \in [1..Len(t) -> I] :
         /\ \A i, j \in 1..Len(t) : w[i] = w[j] => i = j
         /\ \A p \in I : \E i \in 1..Len(t) : w[i] = p
         /\ \A i \in 1..Len(t) : t[i] = s[w[i]]
  BY <1>2, <1>3 DEF Draws
<1>6. \A i \in DOMAIN t : w[i] \in I /\ t[i] = s[w[i]]
  BY <1>4, <1>5
<1>7. \A i, j \in DOMAIN t : t[i] = t[j] => i = j
  BY <1>4, <1>5, <1>6
<1>8. ASSUME NEW x \in Range(t)
      PROVE  x \in Range(s) \ R
  <2>1. PICK i \in DOMAIN t : x = t[i]
    BY <1>8 DEF Range
  <2> QED BY <1>6, <2>1 DEF Range
<1>9. ASSUME NEW x \in Range(s) \ R
      PROVE  x \in Range(t)
  <2>1. PICK p \in DOMAIN s : x = s[p]
    BY <1>9 DEF Range
  <2>2. p \in I
    BY <1>9, <2>1
  <2>3. PICK i \in DOMAIN t : w[i] = p
    BY <1>4, <1>5, <2>2
  <2> QED BY <1>6, <2>1, <2>3 DEF Range
<1>10. Without(s, R) = t
  BY DEF Without, t
<1> QED BY <1>2, <1>7, <1>8, <1>9, <1>10

\* Erasing the labels nothing uses.
LEMMA UnusedSound ==
  ASSUME NEW f, Good(f)
  PROVE  Sound(f, EraseUnusedLabels(f))
<1> DEFINE s == f.blocks
           R == Labels(f) \ UsedLabels(f)
           labels(b) == Remaining(s[b].labels, {p \in DOMAIN s[b].labels : s[b].labels[p] \notin R})
           t == [b \in DOMAIN s |-> [s[b] EXCEPT !.labels = labels(b)]]
<1>1. f \in Bodies(Logs) /\ s \in Seq(BodyBlocks) /\ CleanBlocks(s)
  BY GoodBlocks DEF Good
<1>2. PICK m \in Nat : m = Len(s)
  BY GoodBlocks
<1>3. DOMAIN s = 1..m
  BY <1>2, GoodBlocks
<1>4. R \subseteq OfSeq("label", s) /\ "label" \in Kinds /\ "block" \in Kinds /\ "ins" \in Kinds
      /\ "label" # "block" /\ "label" # "ins"
  BY LabelsOfBody, BodyNodes DEF Kinds
<1>5. R \in SUBSET LiveNodes
  BY <1>1, <1>4, KindsOfSeq, SeqNodes
<1>6. \/ EraseUnusedLabels(f) = Done(f)
      \/ EraseUnusedLabels(f) = Done(Changed([Erased(f, R) EXCEPT !.blocks = t], TRUE))
  BY DEF EraseUnusedLabels
<1>7. ASSUME NEW b \in DOMAIN s
      PROVE  /\ t[b] \in BodyBlocks /\ CleanBlock(t[b])
             /\ OfKind("label", t[b]) = OfKind("label", s[b]) \ R
             /\ \A k \in Kinds : k # "label" => OfKind(k, t[b]) = OfKind(k, s[b])
  <2>1. s[b] \in BodyBlocks /\ CleanBlock(s[b]) /\ s[b].labels \in Seq(LiveNodes)
    BY GoodBlocks
  <2>2. PICK u : u = labels(b)
    OBVIOUS
  <2>3. \A i, j \in DOMAIN s[b].labels : s[b].labels[i] = s[b].labels[j] => i = j
    BY <2>1 DEF CleanBlock
  <2>4. PICK c : c = s[b].labels
    OBVIOUS
  <2>5. PICK Q : Q = R
    OBVIOUS
  <2>6. u \in Seq(LiveNodes) /\ (\A i, j \in DOMAIN u : u[i] = u[j] => i = j) /\ Range(u) = Range(c) \ Q
    <3>1. u = Without(c, Q)
      BY <2>2, <2>4, <2>5 DEF Without
    <3>2. c \in Seq(LiveNodes) /\ \A i, j \in DOMAIN c : c[i] = c[j] => i = j
      BY <2>1, <2>3, <2>4
    <3> QED BY <3>1, <3>2, LabelsRemain
  <2>7. t[b] = [s[b] EXCEPT !.labels = u]
    BY <2>2
  <2> HIDE DEF s, t
  <2>8. OfKind("label", s[b]) = Range(c)
    BY <2>4 DEF OfKind
  <2>9. Range(u) \cap (OfKind("block", s[b]) \cup OfKind("ins", s[b])) = {}
    BY <2>1, <2>6, <2>8 DEF CleanBlock, Kinds
  <2>10. /\ [s[b] EXCEPT !.labels = u] \in BodyBlocks /\ CleanBlock([s[b] EXCEPT !.labels = u])
         /\ OfKind("label", [s[b] EXCEPT !.labels = u]) = Range(u)
         /\ \A k \in Kinds : k # "label" => OfKind(k, [s[b] EXCEPT !.labels = u]) = OfKind(k, s[b])
    BY <2>1, <2>6, <2>9, WithLabels
  <2> QED BY <2>5, <2>6, <2>7, <2>8, <2>10
<1>8. DOMAIN t = 1..m /\ t = [b \in DOMAIN t |-> t[b]]
  BY <1>3
<1>9. /\ Changed([Erased(f, R) EXCEPT !.blocks = t], TRUE) = Published(f, t, 0, Erased(f, R).erased, TRUE)
  <2> HIDE DEF t, R
  <2> QED BY <1>5, ErasedForm
<1> HIDE DEF s, t, R
<1>10. t \in Seq(BodyBlocks)
  <2>1. \A b \in 1..m : t[b] \in BodyBlocks
    BY <1>3, <1>7
  <2> QED BY <1>8, <2>1, SameLength
<1>11. BlocksWithin(t, s)
  <2>1. ASSUME NEW b \in DOMAIN s, NEW k \in Kinds
        PROVE  OfKind(k, t[b]) \subseteq OfKind(k, s[b])
    BY <1>7
  <2> QED BY <1>3, <1>7, <1>8, <1>10, <2>1 DEF BlocksWithin
<1>12. CleanBlocks(t) /\ \A k \in Kinds : OfSeq(k, t) \subseteq OfSeq(k, s)
  BY <1>1, <1>11, WithinClean
<1>13. OfSeq("label", t) = OfSeq("label", s) \ R
  <2>1. ASSUME NEW x \in OfSeq("label", t)
        PROVE  x \in OfSeq("label", s) \ R
    <3>1. PICK b \in DOMAIN s : x \in OfKind("label", t[b])
      BY <1>3, <1>8, <2>1 DEF OfSeq
    <3> QED BY <1>7, <3>1 DEF OfSeq
  <2>2. ASSUME NEW x \in OfSeq("label", s) \ R
        PROVE  x \in OfSeq("label", t)
    <3>1. PICK b \in DOMAIN s : x \in OfKind("label", s[b])
      BY <2>2 DEF OfSeq
    <3>2. x \in OfKind("label", t[b]) /\ b \in DOMAIN t
      BY <1>3, <1>7, <1>8, <2>2, <3>1
    <3> QED BY <3>2 DEF OfSeq
  <2> QED BY <2>1, <2>2
<1>14. \A k \in Kinds : k # "label" => OfSeq(k, t) = OfSeq(k, s)
  BY <1>3, <1>7, <1>8 DEF OfSeq
<1>15. R \cap OfSeq("block", s) = {} /\ R \cap OfSeq("ins", s) = {}
  <2>1. \A x \in R : x \notin OfSeq("block", s)
    BY <1>1, <1>4, OneKind
  <2>2. \A x \in R : x \notin OfSeq("ins", s)
    BY <1>1, <1>4, OneKind
  <2> QED BY <2>1, <2>2
<1>16. R = NodesSeq(s) \ NodesSeq(t)
  <2>1. NodesSeq(s) = OfSeq("block", s) \cup OfSeq("label", s) \cup OfSeq("ins", s)
    BY ThreeKinds
  <2>2. NodesSeq(t) = OfSeq("block", s) \cup (OfSeq("label", s) \ R) \cup OfSeq("ins", s)
    BY <1>4, <1>13, <1>14, ThreeKinds
  <2>3. OfSeq("label", s) \cap OfSeq("block", s) = {} /\ OfSeq("label", s) \cap OfSeq("ins", s) = {}
    BY <1>1, <1>4, OneKind
  <2> QED BY <1>4, <1>15, <2>1, <2>2, <2>3
<1>17. Shrinks(f, Published(f, t, 0, Erased(f, R).erased, TRUE))
  BY <1>5, <1>10, <1>12, <1>16, PublishedFewer DEF s
<1> QED BY <1>6, <1>9, <1>17, DoneSame, DoneSound DEF Evolves

\* Erasing blocks erases all that is in them.
LEMMA EraseBlocksSound ==
  ASSUME NEW f, Good(f), NEW bs \in SUBSET DOMAIN f.blocks
  PROVE  Sound(f, EraseBlocks(f, bs))
<1> DEFINE s == f.blocks
           t == Remaining(s, DOMAIN s \ bs)
           R == NodesOf(f, bs)
<1>1. f \in Bodies(Logs) /\ s \in Seq(BodyBlocks) /\ CleanBlocks(s) /\ DOMAIN s = 1..Len(s)
  BY GoodBlocks DEF Good
<1>2. PICK I : I = DOMAIN s \ bs
  OBVIOUS
<1>3. I \in SUBSET DOMAIN s /\ I \cap (1..Len(s)) = I /\ t = Remaining(s, I)
  BY <1>1, <1>2
<1>4. t \in Seq(BodyBlocks) /\ Draws(t, s, I)
  BY <1>1, <1>3, RemainingDrawn
<1> HIDE DEF t
<1>5. CleanBlocks(t) /\ \A k \in Kinds : OfSeq(k, t) = UNION {OfKind(k, s[c]) : c \in I}
  BY <1>1, <1>3, <1>4, BlocksDrawn
<1>6. \A k \in Kinds : OfSeq(k, t) \subseteq OfSeq(k, s)
  BY <1>3, <1>5 DEF OfSeq
<1>7. NodesSeq(t) = UNION {NodesIn(s[c]) : c \in I}
  <2>1. ASSUME NEW x \in NodesSeq(t)
        PROVE  \E c \in I : x \in NodesIn(s[c])
    <3>1. PICK k \in Kinds : x \in OfSeq(k, t)
      BY <2>1, KindsOfSeq
    <3>2. PICK c \in I : x \in OfKind(k, s[c])
      BY <1>5, <3>1
    <3> QED BY <3>2, KindsOfBlock
  <2>2. ASSUME NEW c \in I, NEW x \in NodesIn(s[c])
        PROVE  x \in NodesSeq(t)
    <3>1. PICK k \in Kinds : x \in OfKind(k, s[c])
      BY KindsOfBlock
    <3>2. x \in OfSeq(k, t)
      BY <1>5, <3>1
    <3> QED BY <3>2, KindsOfSeq
  <2> QED BY <2>1, <2>2
<1>8. R = NodesSeq(s) \ NodesSeq(t)
  <2>1. NodesSeq(s) = UNION {NodesIn(s[c]) : c \in DOMAIN s} /\ R = UNION {NodesIn(s[c]) : c \in bs}
    BY DEF NodesSeq, NodesOf
  <2>2. ASSUME NEW c \in bs, NEW x \in NodesIn(s[c])
        PROVE  x \in NodesSeq(s) \ NodesSeq(t)
    <3>1. \A d \in I : x \notin NodesIn(s[d])
      BY <1>1, <1>2, <2>2 DEF CleanBlocks
    <3> QED BY <1>7, <2>1, <3>1
  <2>3. ASSUME NEW x \in NodesSeq(s) \ NodesSeq(t)
        PROVE  x \in R
    BY <1>2, <1>7, <2>1
  <2> QED BY <2>1, <2>2, <2>3
<1>9. R \in SUBSET LiveNodes
  BY <1>1, <1>8, SeqNodes
<1> HIDE DEF s, R
<1>10. Shrinks(f, Published(f, t, 0, Erased(f, R).erased, TRUE))
  BY <1>4, <1>5, <1>6, <1>8, <1>9, PublishedFewer DEF s
<1>11. Changed([Erased(f, R) EXCEPT !.blocks = t], TRUE) = Published(f, t, 0, Erased(f, R).erased, TRUE)
  BY <1>9, ErasedForm
<1>12. \/ EraseBlocks(f, bs) = Done(f) \/ EraseBlocks(f, bs) = Refused(f)
       \/ EraseBlocks(f, bs) = Done(Changed([Erased(f, R) EXCEPT !.blocks = t], TRUE))
  <2>1. PICK kept : kept = [f EXCEPT !.blocks = Remaining(@, DOMAIN @ \ bs)]
    OBVIOUS
  <2>2. kept.blocks = t
    BY <1>1, <2>1 DEF t, s, Bodies
  <2> HIDE DEF t
  <2>3. \/ EraseBlocks(f, bs) = Done(f) \/ EraseBlocks(f, bs) = Refused(f)
        \/ EraseBlocks(f, bs) = Done(Changed([Erased(f, R) EXCEPT !.blocks = kept.blocks], TRUE))
    BY <2>1 DEF EraseBlocks, R
  <2> QED BY <2>2, <2>3
<1> QED BY <1>10, <1>11, <1>12, DoneSame, RefusedSound, DoneSound DEF Evolves

\* What is left after blocks are erased: at least one block.
LEMMA EraseBlocksLeaves ==
  ASSUME NEW f, Good(f), NEW bs \in SUBSET DOMAIN f.blocks, bs # {}, EraseBlocks(f, bs).ok
  PROVE  EraseBlocks(f, bs).f.blocks # <<>>
<1>1. PICK R : R = NodesOf(f, bs)
  OBVIOUS
<1>2. PICK s : s = [f EXCEPT !.blocks = Remaining(@, DOMAIN @ \ bs)].blocks
  OBVIOUS
<1>3. \/ s = <<>> /\ EraseBlocks(f, bs) = Refused(f)
      \/ EraseBlocks(f, bs) = Refused(f)
      \/ s # <<>> /\ EraseBlocks(f, bs) = Done(Changed([Erased(f, R) EXCEPT !.blocks = s], TRUE))
  BY <1>1, <1>2 DEF EraseBlocks
<1>4. Refused(f).ok = FALSE
  BY DEF Refused
<1>5. R \in SUBSET LiveNodes
  <2>1. \A c \in DOMAIN f.blocks : f.blocks[c] \in BodyBlocks
    BY GoodBlocks
  <2>2. \A c \in bs : NodesIn(f.blocks[c]) \subseteq LiveNodes
    BY <2>1, BlockNodes
  <2> QED BY <1>1, <2>2 DEF NodesOf
<1>6. Changed([Erased(f, R) EXCEPT !.blocks = s], TRUE) = Published(f, s, 0, Erased(f, R).erased, TRUE)
  BY <1>5, ErasedForm
<1>7. PICK q : q = Changed([Erased(f, R) EXCEPT !.blocks = s], TRUE)
  OBVIOUS
<1>8. q.blocks = s
  <2>1. PICK log : log = Erased(f, R).erased
    OBVIOUS
  <2>2. q = Published(f, s, 0, log, TRUE)
    BY <1>6, <1>7, <2>1
  <2>3. Published(f, s, 0, log, TRUE).blocks = s
    BY DEF Published
  <2> QED BY <2>2, <2>3
<1>9. s # <<>> /\ EraseBlocks(f, bs) = Done(q)
  BY <1>3, <1>4, <1>7
<1>10. Done(q).f = q
  BY DEF Done
<1> QED BY <1>8, <1>9, <1>10

-----------------------------------------------------------------------------
\* The labels after the first.
LEMMA TailLabels ==
  ASSUME NEW s \in Seq(LiveNodes), s # <<>>, \A i, j \in DOMAIN s : s[i] = s[j] => i = j
  PROVE  LET t == Tail(s)
         IN  /\ t \in Seq(LiveNodes) /\ \A i, j \in DOMAIN t : t[i] = t[j] => i = j
             /\ s[1] \in LiveNodes /\ s[1] \notin Range(t) /\ Range(s) = {s[1]} \cup Range(t)
<1> DEFINE t == Tail(s)
<1>1. PICK n \in Nat : n = Len(s)
  BY LenProperties
<1>2. DOMAIN s = 1..n /\ n > 0
  BY <1>1, LenProperties, EmptySeq
<1>3. t \in Seq(LiveNodes) /\ Len(t) = Len(s) - 1 /\ \A i \in 1..Len(t) : t[i] = s[i + 1]
  BY HeadTailProperties
<1> HIDE DEF t
<1>4. DOMAIN t = 1..(n - 1) /\ \A i \in 1..(n - 1) : t[i] = s[i + 1]
  BY <1>1, <1>3, LenProperties
<1>5. ASSUME NEW i \in DOMAIN t, NEW j \in DOMAIN t, t[i] = t[j]
      PROVE  i = j
  <2>1. i \in Nat /\ j \in Nat /\ i + 1 \in DOMAIN s /\ j + 1 \in DOMAIN s
    BY <1>2, <1>4
  <2>2. s[i + 1] = s[j + 1]
    BY <1>4, <1>5
  <2>3. i + 1 = j + 1
    BY <2>1, <2>2
  <2> QED BY <2>1, <2>3
<1>6. 1 \in DOMAIN s /\ s[1] \in LiveNodes
  BY <1>1, <1>2, ElementOfSeq
<1>7. s[1] \notin Range(t)
  <2> SUFFICES ASSUME NEW i \in DOMAIN t, t[i] = s[1]
               PROVE  FALSE
    BY DEF Range
  <2>1. i + 1 \in DOMAIN s /\ i + 1 # 1
    BY <1>2, <1>4
  <2> QED BY <1>4, <1>6, <2>1
<1>8. ASSUME NEW x \in Range(s)
      PROVE  x \in {s[1]} \cup Range(t)
  <2>1. PICK i \in DOMAIN s : x = s[i]
    BY <1>8 DEF Range
  <2>2. CASE i = 1
    BY <2>1, <2>2
  <2>3. CASE i # 1
    <3>1. i - 1 \in 1..(n - 1) /\ (i - 1) + 1 = i
      BY <1>2, <2>3
    <3>2. t[i - 1] = x
      BY <1>4, <2>1, <3>1
    <3> QED BY <1>4, <3>1, <3>2 DEF Range
  <2> QED BY <2>2, <2>3
<1>9. ASSUME NEW x \in Range(t)
      PROVE  x \in Range(s)
  <2>1. PICK i \in DOMAIN t : x = t[i]
    BY <1>9 DEF Range
  <2>2. i + 1 \in DOMAIN s /\ x = s[i + 1]
    BY <1>2, <1>4, <2>1
  <2> QED BY <2>2 DEF Range
<1>10. s[1] \in Range(s)
  BY <1>6 DEF Range
<1>11. Range(s) = {s[1]} \cup Range(t)
  BY <1>8, <1>9, <1>10
<1> QED BY <1>3, <1>5, <1>6, <1>7, <1>11 DEF t

\* One label moves to a block of its own in front.
SeparateOne(h, p, scope, x) ==
  LET g == CreateBlock(h, p, scope)
  IN  [g EXCEPT !.blocks[p].labels = <<x>>, !.blocks[p + 1].labels = Tail(@)]

\* One more block in front takes the first label.
LEMMA SeparateStep ==
  ASSUME NEW h, Good(h), NEW p \in DOMAIN h.blocks, NEW scope \in {0, 1},
         h.blocks[p].labels # <<>>, NEW x, x = h.blocks[p].labels[1]
  PROVE  LET q == SeparateOne(h, p, scope, x)
         IN  /\ Grows(h, q) /\ Len(q.blocks) = Len(h.blocks) + 1
             /\ q.blocks[p + 1].labels = Tail(h.blocks[p].labels)
<1>1. PICK g : g = CreateBlock(h, p, scope)
  OBVIOUS
<1>2. PICK c : c = p + 1
  OBVIOUS
<1>3. Len(h.blocks) \in Nat /\ p \in 1..Len(h.blocks) /\ p \in 1..(Len(h.blocks) + 1) /\ c # p /\ c \in 1..(Len(h.blocks) + 1)
  BY <1>2, GoodBlocks
<1>4. Grows(h, g) /\ InsertedAs(g.blocks, h.blocks, p, Block(NewNode(h), scope))
  BY <1>1, <1>3, CreateBlockGrows
<1>5. Good(g) /\ g \in Bodies(Logs)
  BY <1>4 DEF Grows, Good
<1>6. InsertedAs(g.blocks, h.blocks, p, Block(NewNode(h), 0)) \/ InsertedAs(g.blocks, h.blocks, p, Block(NewNode(h), 1))
  <2>1. scope = 0 \/ scope = 1
    OBVIOUS
  <2> QED BY <1>4, <2>1
<1>7. /\ Len(g.blocks) = Len(h.blocks) + 1
      /\ g.blocks[p].labels = <<>> /\ g.blocks[c] = h.blocks[p]
  BY <1>2, <1>3, <1>6, AroundNewBlock
<1> DEFINE s == g.blocks
           u == Tail(s[c].labels)
           v == <<x>>
           w == WithLabs(s, c, u)
           t == WithLabs(w, p, v)
<1>8. s \in Seq(BodyBlocks) /\ CleanBlocks(s) /\ p \in DOMAIN s /\ c \in DOMAIN s
  BY <1>3, <1>5, <1>7, GoodBlocks
<1>9. s[c] \in BodyBlocks /\ CleanBlock(s[c]) /\ s[c].labels \in Seq(LiveNodes) /\ s[c].labels # <<>> /\ x = s[c].labels[1]
  BY <1>5, <1>7, <1>8, GoodBlocks
<1>10. \A i, j \in DOMAIN s[c].labels : s[c].labels[i] = s[c].labels[j] => i = j
  BY <1>9 DEF CleanBlock
<1>11. PICK L : L = s[c].labels
  OBVIOUS
<1>12. /\ u \in Seq(LiveNodes) /\ (\A i, j \in DOMAIN u : u[i] = u[j] => i = j)
       /\ x \in LiveNodes /\ x \notin Range(u) /\ Range(L) = {x} \cup Range(u)
  <2>1. L \in Seq(LiveNodes) /\ L # <<>> /\ (\A i, j \in DOMAIN L : L[i] = L[j] => i = j) /\ u = Tail(L) /\ x = L[1]
    BY <1>9, <1>10, <1>11
  <2> HIDE DEF u
  <2> QED BY <2>1, TailLabels
<1>13. u = Tail(h.blocks[p].labels)
  BY <1>7
<1>14. OfKind("label", s[c]) = Range(L) /\ OfKind("label", s[p]) = {}
  BY <1>7, <1>11 DEF OfKind, Range
<1>15. [g EXCEPT !.blocks = [[s EXCEPT ![p] = [s[p] EXCEPT !.labels = v]] EXCEPT ![c] = [s[c] EXCEPT !.labels = u]]]
       = SeparateOne(h, p, scope, x)
  BY <1>1, <1>2, <1>3, <1>5, <1>8 DEF SeparateOne, Bodies
<1>16. [[s EXCEPT ![p] = [s[p] EXCEPT !.labels = v]] EXCEPT ![c] = [s[c] EXCEPT !.labels = u]] = t
  <2>1. w[p] = s[p]
    BY <1>3, <1>8 DEF WithLabs
  <2>2. t = [w EXCEPT ![p] = [s[p] EXCEPT !.labels = v]]
    BY <2>1 DEF WithLabs
  <2>3. PICK y : y = [s[p] EXCEPT !.labels = v]
    OBVIOUS
  <2>4. PICK z : z = [s[c] EXCEPT !.labels = u]
    OBVIOUS
  <2>5. w = [s EXCEPT ![c] = z]
    BY <2>4 DEF WithLabs
  <2> HIDE DEF s, t, u, v, w
  <2> QED BY <1>3, <2>2, <2>3, <2>4, <2>5
<1> HIDE DEF s, u
<1>17. OneKindChanged(w, s, c, [s[c] EXCEPT !.labels = u], "label", Range(u))
  <2>1. PICK X : X = {}
    OBVIOUS
  <2>2. Range(u) \subseteq OfKind("label", s[c]) \cup X /\ X \cap NodesSeq(s) = {}
    BY <1>12, <1>14, <2>1
  <2> HIDE DEF w
  <2> QED BY <1>8, <1>12, <2>2, LabsChanged DEF w
<1>18. /\ w \in Seq(BodyBlocks) /\ CleanBlocks(w) /\ Len(w) = Len(s) /\ p \in DOMAIN w /\ DOMAIN w = DOMAIN s
       /\ w[p] = s[p] /\ w[c] = [s[c] EXCEPT !.labels = u]
       /\ OfSeq("label", w) = (OfSeq("label", s) \ Range(L)) \cup Range(u)
       /\ \A k \in Kinds : k # "label" => OfSeq(k, w) = OfSeq(k, s)
  BY <1>3, <1>8, <1>14, <1>17 DEF OneKindChanged
<1> HIDE DEF w
<1>19. x \in OfSeq("label", s) /\ Range(L) \subseteq OfSeq("label", s)
  BY <1>8, <1>12, <1>14 DEF OfSeq
<1>20. x \notin NodesSeq(w)
  <2>1. "label" \in Kinds /\ "block" \in Kinds /\ "ins" \in Kinds /\ "label" # "block" /\ "label" # "ins"
    BY DEF Kinds
  <2>2. x \notin OfSeq("block", s)
    BY <1>8, <1>19, <2>1, OneKind
  <2>3. x \notin OfSeq("ins", s)
    BY <1>8, <1>19, <2>1, OneKind
  <2> QED BY <1>12, <1>18, <2>1, <2>2, <2>3, ThreeKinds
<1>21. v \in Seq(LiveNodes) /\ (\A i, j \in DOMAIN v : v[i] = v[j] => i = j) /\ Range(v) = {x}
  <2>1. v \in Seq(LiveNodes) /\ Len(v) = 1 /\ DOMAIN v = {1} /\ v[1] = x
    BY <1>12
  <2> HIDE DEF v
  <2> QED BY <2>1 DEF Range
<1> HIDE DEF v
<1>22. OneKindChanged(t, w, p, [w[p] EXCEPT !.labels = v], "label", Range(v))
  <2>1. PICK X : X = {x}
    OBVIOUS
  <2>2. Range(v) \subseteq OfKind("label", w[p]) \cup X /\ X \cap NodesSeq(w) = {}
    BY <1>20, <1>21, <2>1
  <2> QED BY <1>18, <1>21, <2>2, LabsChanged DEF t
<1>23. /\ t \in Seq(BodyBlocks) /\ CleanBlocks(t) /\ Len(t) = Len(s) /\ t[c] = [s[c] EXCEPT !.labels = u]
       /\ OfSeq("label", t) = OfSeq("label", w) \cup {x}
       /\ \A k \in Kinds : k # "label" => OfSeq(k, t) = OfSeq(k, s)
  BY <1>3, <1>8, <1>14, <1>18, <1>21, <1>22 DEF OneKindChanged
<1> HIDE DEF t
<1>24. \A k \in Kinds : OfSeq(k, t) = OfSeq(k, s)
  <2>1. OfSeq("label", t) = OfSeq("label", s)
    BY <1>12, <1>18, <1>19, <1>23
  <2> QED BY <1>23, <2>1
<1>25. PICK q : q = [g EXCEPT !.blocks = t]
  OBVIOUS
<1>26. q = SeparateOne(h, p, scope, x)
  BY <1>15, <1>16, <1>25
<1>27. /\ q \in Bodies(Logs) /\ q.blocks = t /\ q.gen = g.gen /\ q.rev.i = g.rev.i
       /\ q.erased = g.erased /\ q.tracks = g.tracks
  BY <1>5, <1>23, <1>25 DEF Bodies
<1>28. Grows(g, q)
  <2>1. g.rev.i <= q.rev.i
    <3>1. g.rev.i \in Nat
      BY <1>5 DEF Bodies
    <3> QED BY <1>27, <3>1
  <2>2. CleanBlocks(q.blocks) /\ \A k \in Kinds : OfSeq(k, q.blocks) = OfSeq(k, g.blocks)
    BY <1>23, <1>24, <1>27 DEF s
  <2> QED BY <1>5, <1>27, <2>1, <2>2, SameNodes
<1>29. Grows(h, q)
  BY <1>4, <1>28, GrowsOn
<1>30. Len(q.blocks) = Len(h.blocks) + 1
  BY <1>7, <1>23, <1>27 DEF s
<1>31. q.blocks[p + 1].labels = Tail(h.blocks[p].labels)
  <2>1. t[c].labels = u
    BY <1>9, <1>23 DEF BodyBlocks
  <2> QED BY <1>2, <1>13, <1>27, <2>1
<1> QED BY <1>26, <1>29, <1>30, <1>31

\* After k of the labels of block b have a block of their own.
Separating(f, b, k, h) ==
  /\ Grows(f, h)
  /\ Len(h.blocks) = Len(f.blocks) + k
  /\ Len(h.blocks[b + k].labels) = Len(f.blocks[b].labels) - k
  /\ \A j \in 1..(Len(f.blocks[b].labels) - k) : h.blocks[b + k].labels[j] = f.blocks[b].labels[j + k]

\* No label is separated yet.
LEMMA SeparatingStarts ==
  ASSUME NEW f, Good(f), NEW b \in DOMAIN f.blocks
  PROVE  Separating(f, b, 0, f)
<1>1. b \in Nat /\ Len(f.blocks) \in Nat /\ Len(f.blocks[b].labels) \in Nat
  BY GoodBlocks
<1>2. b + 0 = b /\ Len(f.blocks) + 0 = Len(f.blocks) /\ Len(f.blocks[b].labels) - 0 = Len(f.blocks[b].labels)
  BY <1>1
<1>3. \A j \in 1..Len(f.blocks[b].labels) : j + 0 = j
  BY <1>1
<1> QED BY <1>2, <1>3, GrowsSame DEF Separating

\* One label more is separated.
LEMMA SeparatingGoesOn ==
  ASSUME NEW f, Good(f), NEW b \in DOMAIN f.blocks, NEW k \in Nat, k + 1 < Len(f.blocks[b].labels),
         NEW h, Separating(f, b, k, h)
  PROVE  Separating(f, b, k + 1, SeparateOne(h, b + k, f.blocks[b].scope, f.blocks[b].labels[k + 1]))
<1>1. PICK m \in Nat : m = Len(f.blocks[b].labels)
  BY GoodBlocks
<1>2. PICK n \in Nat : n = Len(f.blocks)
  BY GoodBlocks
<1>3. b \in 1..n
  BY <1>2, GoodBlocks
<1>4. Good(h) /\ Grows(f, h)
  BY DEF Separating, Grows
<1>5. PICK p \in Nat : p = b + k
  BY <1>3
<1>6. Len(h.blocks) = n + k /\ p \in DOMAIN h.blocks
  <2>1. Len(h.blocks) = n + k
    BY <1>2 DEF Separating
  <2>2. p \in 1..(n + k)
    BY <1>3, <1>5
  <2> QED BY <1>4, <2>1, <2>2, GoodBlocks
<1>7. PICK L : L = h.blocks[p].labels
  OBVIOUS
<1>8. L \in Seq(LiveNodes) /\ Len(L) = m - k /\ \A j \in 1..(m - k) : L[j] = f.blocks[b].labels[j + k]
  BY <1>1, <1>4, <1>5, <1>6, <1>7, GoodBlocks DEF Separating
<1>9. 1 \in 1..(m - k) /\ 1 + k = k + 1
  BY <1>1
<1>10. L # <<>> /\ L[1] = f.blocks[b].labels[k + 1]
  BY <1>1, <1>8, <1>9, EmptySeq
<1>11. PICK x : x = f.blocks[b].labels[k + 1]
  OBVIOUS
<1>12. PICK scope \in {0, 1} : scope = f.blocks[b].scope
  <2>1. f.blocks[b] \in BodyBlocks
    BY GoodBlocks
  <2> QED BY <2>1 DEF BodyBlocks
<1>13. PICK q : q = SeparateOne(h, p, scope, x)
  OBVIOUS
<1>14. Grows(h, q) /\ Len(q.blocks) = Len(h.blocks) + 1 /\ q.blocks[p + 1].labels = Tail(L)
  <2>1. h.blocks[p].labels # <<>> /\ x = h.blocks[p].labels[1]
    BY <1>7, <1>10, <1>11
  <2> QED BY <1>4, <1>6, <1>7, <1>13, <2>1, SeparateStep
<1>15. Grows(f, q)
  BY <1>4, <1>14, GrowsOn
<1>16. Len(Tail(L)) = (m - k) - 1 /\ \A i \in 1..Len(Tail(L)) : Tail(L)[i] = L[i + 1]
  BY <1>8, <1>10, HeadTailProperties
<1>17. ASSUME NEW j \in 1..(m - (k + 1))
       PROVE  Tail(L)[j] = f.blocks[b].labels[j + (k + 1)]
  <2>1. j \in 1..((m - k) - 1) /\ j + 1 \in 1..(m - k) /\ (j + 1) + k = j + (k + 1)
    OBVIOUS
  <2>2. Tail(L)[j] = L[j + 1]
    BY <1>16, <2>1
  <2>3. L[j + 1] = f.blocks[b].labels[(j + 1) + k]
    BY <1>8, <2>1
  <2> QED BY <2>1, <2>2, <2>3
<1>18. p + 1 = b + (k + 1) /\ (n + k) + 1 = n + (k + 1) /\ (m - k) - 1 = m - (k + 1)
  BY <1>3, <1>5
<1>19. Separating(f, b, k + 1, q)
  <2>1. Len(q.blocks) = Len(f.blocks) + (k + 1)
    BY <1>2, <1>6, <1>14, <1>18
  <2>2. q.blocks[b + (k + 1)].labels = Tail(L)
    BY <1>14, <1>18
  <2> QED BY <1>1, <1>15, <1>16, <1>17, <1>18, <2>1, <2>2 DEF Separating
<1> QED BY <1>5, <1>11, <1>12, <1>13, <1>19

\* Every label of a block but the last gets a block of its own.
LEMMA SeparateSound ==
  ASSUME NEW f, Good(f), NEW b \in DOMAIN f.blocks
  PROVE  Sound(f, SeparateLabels(f, b))
<1> DEFINE labels == f.blocks[b].labels
           N == Len(labels) - 1
           scope == f.blocks[b].scope
           Z == Bodies(Logs)
           Put(h, k) == LET g == CreateBlock(h, b + k - 1, scope)
                        IN  [g EXCEPT !.blocks[b + k - 1].labels = <<labels[k]>>, !.blocks[b + k].labels = Tail(@)]
           step == [a \in (1..N) \X Z |-> IF Separating(f, b, a[1] - 1, a[2]) THEN Put(a[2], a[1]) ELSE a[2]]
           Defines(g) == g = [k \in 0..N |-> IF k = 0 THEN f ELSE Put(g[k - 1], k)]
           done == CHOOSE g : Defines(g)
<1>1. CASE Len(labels) < 2
  <2>1. SeparateLabels(f, b) = Done(f)
    BY <1>1 DEF SeparateLabels
  <2> QED BY <2>1, DoneSame
<1>2. CASE ~(Len(labels) < 2)
  <2>1. N \in Nat /\ Len(labels) = N + 1 /\ b \in Nat /\ f \in Z
    BY <1>2, GoodBlocks DEF Good
  <2>2. SeparateLabels(f, b) = Done(done[N])
    BY <1>2 DEF SeparateLabels
  <2>3. ASSUME NEW k \in 1..N, NEW h, Separating(f, b, k - 1, h)
        PROVE  Separating(f, b, k, Put(h, k))
    <3>1. PICK i \in Nat : i = k - 1
      BY <2>1
    <3>2. i + 1 = k /\ b + k - 1 = b + i /\ b + k = (b + i) + 1 /\ i + 1 < Len(labels)
      BY <2>1, <3>1
    <3>3. Separating(f, b, i + 1, SeparateOne(h, b + i, scope, labels[i + 1]))
      BY <2>3, <3>1, <3>2, SeparatingGoesOn
    <3>4. Put(h, k) = SeparateOne(h, b + i, scope, labels[i + 1])
      BY <3>2 DEF SeparateOne
    <3> QED BY <3>2, <3>3, <3>4
  <2>4. ASSUME NEW g, g[0] = f, \A k \in 1..N : Separating(f, b, k - 1, g[k - 1]) => g[k] = Put(g[k - 1], k)
        PROVE  \A k \in 0..N : Separating(f, b, k, g[k])
    <3> HIDE DEF Put, N
    <3>1. PICK P : P = {k \in 0..N : Separating(f, b, k, g[k])}
      OBVIOUS
    <3>2. 0 \in P
      BY <2>1, <2>4, <3>1, SeparatingStarts
    <3>3. ASSUME NEW k \in 0..(N - 1), k \in P
          PROVE  k + 1 \in P
      <4>1. k + 1 \in 1..N /\ (k + 1) - 1 = k /\ k + 1 \in 0..N
        BY <2>1
      <4>2. Separating(f, b, (k + 1) - 1, g[(k + 1) - 1])
        BY <3>1, <3>3, <4>1
      <4>3. g[k + 1] = Put(g[(k + 1) - 1], k + 1)
        BY <2>4, <4>1, <4>2
      <4>4. Separating(f, b, k + 1, Put(g[(k + 1) - 1], k + 1))
        BY <2>3, <4>1, <4>2
      <4> QED BY <3>1, <4>1, <4>3, <4>4
    <3>4. 0..N \subseteq P
      <4>1. \A k \in 0..(N - 1) : k \in P => k + 1 \in P
        BY <3>3
      <4> QED BY <2>1, <3>2, <4>1, CountsUp
    <3> QED BY <3>1, <3>4
  <2>5. PICK g : SolvedBy(g, N, Z, f, step)
    <3>1. ASSUME NEW k \in 1..N, NEW h \in Z
          PROVE  (IF Separating(f, b, k - 1, h) THEN Put(h, k) ELSE h) \in Z
      <4>1. CASE Separating(f, b, k - 1, h)
        <5>1. Separating(f, b, k, Put(h, k))
          BY <2>3, <4>1
        <5> HIDE DEF Put
        <5>2. Put(h, k) \in Bodies(Logs)
          BY <5>1 DEF Separating, Grows, Good
        <5> QED BY <4>1, <5>2
      <4> HIDE DEF Put, Z
      <4> QED BY <4>1
    <3>2. step \in [(1..N) \X Z -> Z]
      <4> HIDE DEF Put, Z, N
      <4> QED BY <3>1
    <3> HIDE DEF step, Z, N
    <3>3. ByOne(N, Z, f, step)
      BY <2>1, <3>2 DEF ByOne
    <3> QED BY <3>3, RecursionByOne
  <2>6. g \in [0..N -> Z] /\ g[0] = f
    BY <2>5 DEF SolvedBy
  <2>7. ASSUME NEW k \in 1..N
        PROVE  g[k] = IF Separating(f, b, k - 1, g[k - 1]) THEN Put(g[k - 1], k) ELSE g[k - 1]
    <3>1. k - 1 \in 0..N
      BY <2>1
    <3>2. g[k - 1] \in Z
      BY <2>6, <3>1
    <3> HIDE DEF Z, Put, N
    <3> QED BY <2>5, <3>2 DEF SolvedBy
  <2>8. \A k \in 0..N : Separating(f, b, k, g[k])
    <3> HIDE DEF Put, N
    <3> QED BY <2>4, <2>6, <2>7
  <2>9. ASSUME NEW k \in 1..N
        PROVE  g[k] = Put(g[k - 1], k)
    <3>1. k - 1 \in 0..N
      BY <2>1
    <3> HIDE DEF Put, N
    <3> QED BY <2>7, <2>8, <3>1
  <2>10. Defines(g)
    <3>1. \A k \in 0..N : k = 0 \/ k \in 1..N
      BY <2>1
    <3> HIDE DEF Z, Put, N
    <3> QED BY <2>6, <2>9, <3>1
  <2>11. Defines(done)
    <3> HIDE DEF Defines
    <3> QED BY <2>10
  <2>12. done[0] = f /\ \A k \in 1..N : done[k] = Put(done[k - 1], k)
    <3>1. ASSUME NEW h, Defines(h)
          PROVE  h[0] = f /\ \A k \in 1..N : h[k] = Put(h[k - 1], k)
      <4> HIDE DEF Put, N
      <4>1. \A k \in 0..N : h[k] = IF k = 0 THEN f ELSE Put(h[k - 1], k)
        BY <3>1, Zenon
      <4> HIDE DEF Defines
      <4> QED BY <2>1, <4>1
    <3> HIDE DEF Defines, done
    <3> QED BY <2>11, <3>1
  <2> HIDE DEF done, Put, N, Defines
  <2>13. Separating(f, b, N, done[N])
    <3>1. \A k \in 0..N : Separating(f, b, k, done[k])
      BY <2>4, <2>12
    <3> QED BY <2>1, <3>1
  <2> QED BY <2>2, <2>13, DoneGrows DEF Separating
<1> QED BY <1>1, <1>2

-----------------------------------------------------------------------------
\* A step that changes the body as edits do, one batch soundly, and adds no handle keeps the invariant.
LEMMA StepKeeps ==
  ASSUME EditingInv, Evolves(fn, fn'), NEW b \in Batches, NEW v \in BatchRecords, BatchSound(fn', v),
         batch' = [batch EXCEPT ![b] = v], handles' \subseteq handles
  PROVE  EditingInv'
<1>1. Good(fn) /\ LogSound(fn) /\ batch \in [Batches -> BatchRecords] /\ (handles # {} => fn.tracks)
  BY DEF EditingInv
<1>2. \A c \in Batches : BatchSound(fn, batch[c])
  BY DEF EditingInv
<1>3. \A h \in handles : HandleSound(fn, h)
  BY DEF EditingInv
<1>4. PICK f : f = fn
  OBVIOUS
<1>5. PICK g : g = fn'
  OBVIOUS
<1>6. Good(f) /\ LogSound(f) /\ Evolves(f, g)
  BY <1>1, <1>4, <1>5
<1>7. Good(g) /\ LogSound(g)
  BY <1>6, EvolvesGood, LogAfter
<1>8. batch' \in [Batches -> BatchRecords]
  BY <1>1
<1>9. \A c \in Batches : BatchSound(g, batch'[c])
  <2>1. ASSUME NEW c \in Batches, c # b
        PROVE  BatchSound(g, batch'[c])
    <3>1. PICK w \in BatchRecords : w = batch[c]
      BY <1>1
    <3>2. w.insert \in Positions /\ BatchSound(f, w)
      BY <1>2, <1>4, <3>1 DEF BatchRecords
    <3>3. BatchSound(g, w)
      BY <1>6, <3>2, BatchAfter
    <3>4. batch'[c] = w
      BY <1>1, <2>1, <3>1
    <3> QED BY <3>3, <3>4
  <2>2. batch'[b] = v
    BY <1>1
  <2> QED BY <1>5, <2>1, <2>2
<1>10. ASSUME NEW h \in handles'
       PROVE  HandleSound(g, h)
  <2>1. h \in handles /\ f.tracks
    BY <1>1, <1>4
  <2>2. HandleSound(f, h)
    BY <1>3, <1>4, <2>1
  <2> QED BY <1>6, <2>1, <2>2, HandleAfter
<1>11. handles' # {} => g.tracks
  <2>1. handles' # {} => f.tracks
    BY <1>1, <1>4
  <2>2. f.tracks => g.tracks
    BY <1>6 DEF Evolves, Grows, Shrinks
  <2> QED BY <2>1, <2>2
<1> QED BY <1>5, <1>7, <1>8, <1>9, <1>10, <1>11 DEF EditingInv

\* So does one that leaves body and batches alone.
LEMMA SameKeeps ==
  ASSUME EditingInv, fn' = fn, batch' = batch, handles' = handles
  PROVE  EditingInv'
BY SMTT(30) DEF EditingInv, HandleSound, BatchSound, LogSound, Good, WasErased, Clean, Nodes, OfBody

\* What a call on batch b does to the errors: nothing where it goes astray;
\* else it is an error of the batch just when it is one of the program, and
\* then it has written nothing or left a load.
Effect(b) ==
  /\ pass' = pass
  /\ \/ editError' = editError /\ batch' = batch /\ fn' = fn
     \/ /\ batch'[b].status = batch[b].status /\ batch'[b].error = editError'
        /\ \A c \in Batches : c # b => batch'[c] = batch[c]
        /\ editError' \in BOOLEAN
        /\ editError' => Written(fn') = Written(fn) \/ LoadLeft(fn, fn')

Keeps(b) == EditingInv' /\ Effect(b)

\* A call that publishes what it made.
LEMMA PublishKeeps ==
  ASSUME EditingInv, NEW b \in Batches, NEW r, SoundOrLoad(fn, r),
         NEW view \in BatchRecords, BatchSound(r.f, view), view.status = batch[b].status, Publish(b, r, view)
  PROVE  Keeps(b)
<1>1. fn' = r.f /\ batch' = [batch EXCEPT ![b] = [view EXCEPT !.error = ~r.ok]] /\ handles' = handles /\ pass' = pass
  BY DEF Publish
<1>2. PICK e \in BOOLEAN : e = ~r.ok
  <2>1. CASE r.ok
    <3>1. FALSE \in BOOLEAN /\ FALSE = ~r.ok
      BY <2>1
    <3> QED BY <3>1, Zenon
  <2>2. CASE ~r.ok
    <3>1. TRUE \in BOOLEAN /\ TRUE = ~r.ok
      BY <2>2
    <3> QED BY <3>1, Zenon
  <2> QED BY <2>1, <2>2
<1>3. editError' = e
  BY <1>2 DEF Publish
<1>4. PICK v : v = [view EXCEPT !.error = e]
  OBVIOUS
<1>5. v \in BatchRecords /\ v.insert = view.insert /\ v.status = batch[b].status /\ v.error = e
  BY <1>4 DEF BatchRecords
<1>6. BatchSound(fn', v)
  BY <1>1, <1>5 DEF BatchSound
<1>7. batch' = [batch EXCEPT ![b] = v] /\ Evolves(fn, fn')
  BY <1>1, <1>2, <1>4 DEF SoundOrLoad
<1>8. EditingInv'
  BY <1>1, <1>5, <1>6, <1>7, StepKeeps
<1>9. batch'[b] = v /\ \A c \in Batches : c # b => batch'[c] = batch[c]
  <2>1. DOMAIN batch = Batches
    BY DEF EditingInv
  <2> QED BY <1>7, <2>1
<1>10. e => Written(fn') = Written(fn) \/ LoadLeft(fn, fn')
  BY <1>1, <1>2 DEF SoundOrLoad
<1>11. batch'[b].status = batch[b].status /\ batch'[b].error = editError' /\ editError' \in BOOLEAN
  BY <1>2, <1>3, <1>5, <1>9
<1>12. editError' => Written(fn') = Written(fn) \/ LoadLeft(fn, fn')
  BY <1>3, <1>10
<1> QED BY <1>1, <1>8, <1>9, <1>11, <1>12 DEF Keeps, Effect

\* What a batch is in the invariant.
LEMMA BatchTyped ==
  ASSUME EditingInv, NEW b \in Batches
  PROVE  batch[b] \in BatchRecords /\ BatchSound(fn, batch[b]) /\ Good(fn)
BY DEF EditingInv

\* A call that leaves the batch as it is.
LEMMA ApplyOrLoadKeeps ==
  ASSUME EditingInv, NEW b \in Batches, NEW r, SoundOrLoad(fn, r), Apply(b, r)
  PROVE  Keeps(b)
<1>1. PICK v : v = batch[b]
  OBVIOUS
<1>2. v \in BatchRecords /\ BatchSound(fn, v) /\ v.insert \in Positions /\ Good(fn)
  BY <1>1, BatchTyped DEF BatchRecords
<1>3. Evolves(fn, r.f)
  BY DEF SoundOrLoad
<1>4. BatchSound(r.f, v)
  BY <1>2, <1>3, BatchAfter
<1>5. Publish(b, r, v) /\ v.status = batch[b].status
  BY <1>1 DEF Apply
<1> QED BY <1>2, <1>4, <1>5, PublishKeeps

\* A sound call leaves no load either.
LEMMA SoundLeaves ==
  ASSUME NEW f, NEW r, Sound(f, r)
  PROVE  SoundOrLoad(f, r)
BY DEF Sound, SoundOrLoad

\* So for the calls that are sound.
LEMMA ApplyKeeps ==
  ASSUME EditingInv, NEW b \in Batches, NEW r, Sound(fn, r), Apply(b, r)
  PROVE  Keeps(b)
BY SoundLeaves, ApplyOrLoadKeeps

\* A call that goes astray leaves the body.
LEMMA AstrayKeeps ==
  ASSUME EditingInv, NEW b \in Batches, Astray
  PROVE  Keeps(b)
BY SameKeeps DEF Astray, Keeps, Effect

-----------------------------------------------------------------------------
\* What a call takes is a sound handle, kept or made for the call.
LEMMA ArgumentSound ==
  ASSUME EditingInv, NEW b \in Batches, NEW h \in BlockArgs(b) \cup LabelArgs(b) \cup InstructionArgs(b)
  PROVE  HandleSound(fn, h)
<1>1. CASE h \in handles
  BY <1>1 DEF EditingInv
<1>2. ASSUME NEW k \in Kinds, NEW n \in OfBody(k, fn), h = Handle(b, k, n)
      PROVE  HandleSound(fn, h)
  <2>1. Good(fn) /\ LogSound(fn)
    BY DEF EditingInv
  <2>2. n \in Nodes(fn)
    BY BodyNodes, KindsOfSeq
  <2>3. n \in LiveNodes /\ n.g <= fn.gen /\ fn.rev.i \in Nat
    BY <2>1, <2>2, NodesAreLive DEF Good, Bodies
  <2>4. h.batch = b /\ h.kind = k /\ h.node = n /\ h.rev = fn.rev.i /\ h \in [batch : Batches, kind : Kinds, node : LiveNodes, rev : Nat]
    BY <1>2, <2>3 DEF Handle
  <2>5. h.rev <= fn.rev.i
    BY <2>3, <2>4
  <2>6. ~WasErased(fn, n.a, fn.rev.i)
    <3>1. CASE n.a \in DOMAIN fn.erased
      <4>1. fn.erased[n.a] < fn.rev.i /\ fn.erased[n.a] \in Nat
        <5>1. fn.erased \in Logs
          BY <2>1 DEF Good, Bodies
        <5>2. fn.erased[n.a] \in Nat
          BY <3>1, <5>1 DEF Logs
        <5> QED BY <2>1, <2>2, <3>1, <5>2 DEF LogSound
      <4> QED BY <2>3, <4>1 DEF WasErased
    <3>2. CASE n.a \notin DOMAIN fn.erased
      BY <3>2 DEF WasErased
    <3> QED BY <3>1, <3>2
  <2> QED BY <2>2, <2>3, <2>4, <2>5, <2>6 DEF HandleSound
<1>3. h \in handles \/ \E k \in Kinds : \E n \in OfBody(k, fn) : h = Handle(b, k, n)
  <2>1. "block" \in Kinds /\ "label" \in Kinds /\ "ins" \in Kinds
    BY DEF Kinds
  <2>2. CASE h \in BlockArgs(b)
    <3>1. h \in handles \/ \E c \in DOMAIN fn.blocks : h = Handle(b, "block", fn.blocks[c].n)
      BY <2>2 DEF BlockArgs
    <3>2. \A c \in DOMAIN fn.blocks : fn.blocks[c].n \in OfBody("block", fn)
      BY DEF OfBody, OfKind
    <3> QED BY <2>1, <3>1, <3>2
  <2>3. CASE h \in LabelArgs(b)
    <3>1. h \in handles \/ \E n \in Labels(fn) : h = Handle(b, "label", n)
      BY <2>3 DEF LabelArgs
    <3> QED BY <2>1, <3>1, LabelsOfBody
  <2>4. CASE h \in InstructionArgs(b)
    <3>1. h \in handles \/ \E c \in DOMAIN fn.blocks : \E i \in Range(fn.blocks[c].ins) : h = Handle(b, "ins", i.n)
      BY <2>4 DEF InstructionArgs
    <3>2. \A c \in DOMAIN fn.blocks : \A i \in Range(fn.blocks[c].ins) : i.n \in OfBody("ins", fn)
      BY DEF OfBody, OfKind
    <3> QED BY <2>1, <3>1, <3>2
  <2> QED BY <2>2, <2>3, <2>4
<1> QED BY <1>1, <1>2, <1>3

\* A block a batch owns is a block of the body.
LEMMA BlockArgument ==
  ASSUME EditingInv, NEW b \in Batches, NEW h \in BlockArgs(b), h.node \in Nodes(fn) \/ Owned(b, h)
  PROVE  /\ h.node \in LiveNodes /\ h.node \in OfBody("block", fn) /\ h.node.g <= fn.gen
         /\ BlockNumber(h) \in DOMAIN fn.blocks /\ fn.blocks[BlockNumber(h)].n = h.node
<1>1. HandleSound(fn, h)
  BY ArgumentSound
<1>2. h.kind = "block"
  BY DEF BlockArgs, Handle
<1>3. h.node \in Nodes(fn)
  BY <1>1 DEF Owned, Resolves, HandleSound
<1>4. h.node \in OfBody("block", fn) /\ h.node \in LiveNodes /\ h.node.g <= fn.gen
  BY <1>1, <1>2, <1>3 DEF HandleSound
<1> QED BY <1>4, BlockFound DEF BlockNumber

\* A label is one of its labels.
LEMMA LabelArgument ==
  ASSUME EditingInv, NEW b \in Batches, NEW h \in LabelArgs(b)
  PROVE  h.node \in LiveNodes
<1>1. HandleSound(fn, h)
  BY ArgumentSound
<1> QED BY <1>1 DEF HandleSound

\* An instruction that resolves is in the body.
LEMMA InstructionArgument ==
  ASSUME EditingInv, NEW b \in Batches, NEW h \in InstructionArgs(b), Owned(b, h)
  PROVE  h.node \in LiveNodes /\ h.node \in OfBody("ins", fn)
<1>1. HandleSound(fn, h)
  BY ArgumentSound
<1>2. h.kind = "ins"
  BY DEF InstructionArgs, Handle
<1> QED BY <1>1, <1>2 DEF Owned, Resolves, HandleSound

-----------------------------------------------------------------------------
\* Sequences of one member and of two.
LEMMA ShortSequences ==
  ASSUME NEW S, NEW x \in S, NEW y \in S
  PROVE  <<x>> \in Seq(S) /\ <<x, y>> \in Seq(S)
<1>1. <<x>> \in [1..1 -> S] /\ <<x, y>> \in [1..2 -> S]
  OBVIOUS
<1> QED BY <1>1, SeqDef

\* What clients write is typed.
LEMMA TemplatesTyped ==
  ASSUME NEW t \in Templates
  PROVE  t \in InsTemplates
<1>1. t \in [op : Opcodes, d : Operands, u : Operands, w : Operands, l : {<<>>}]
  BY TemplateAssumption
<1>2. \A l \in {<<>>} : l \in Seq(LiveNodes)
  BY EmptySeq
<1> QED BY <1>1, <1>2 DEF InsTemplates

\* An operation of known name that reads and writes registers of the program.
OpsOf == {"mov", "laddr", "load", "store", "ext", "vector", "alloca", "restore", "vaarg", "vastart", "call", "jcall", "ret",
          "jret", "jmp", "switch", "bt"}

\* An operation on registers is an instruction a client may write.
LEMMA OperationTyped ==
  ASSUME NEW op \in OpsOf, NEW d \in Operands, NEW u \in Operands
  PROVE  Insn(op, d, u, <<>>) \in InsTemplates /\ Insn(op, d, u, <<>>).d = d
<1>1. PICK l \in Seq(LiveNodes) : l = <<>>
  BY EmptySeq
<1>2. op \in Opcodes
  BY DEF OpsOf, Opcodes
<1>3. Insn(op, d, u, l) \in InsTemplates /\ Insn(op, d, u, l).d = d
  BY <1>2, InsnTyped
<1> QED BY <1>1, <1>3

\* Names for results: as many registers as are asked for, one of which can be chosen.
LEMMA UnnamedOne ==
  ASSUME NEW rs \in Unnamed(1)
  PROVE  rs \in SUBSET Registers /\ Cardinality(rs) \in Nat /\ (CHOOSE r \in rs : TRUE) \in rs
<1>1. rs \in SUBSET Registers /\ Cardinality(rs) = 1
  BY DEF Unnamed
<1>2. rs # {}
  <2> SUFFICES ASSUME rs = {}
               PROVE  FALSE
    OBVIOUS
  <2>1. Cardinality(rs) = 0
    BY FS_EmptySet
  <2> QED BY <1>1, <2>1
<1> QED BY <1>1, <1>2

\* Two registers without a name.
LEMMA UnnamedTwo ==
  ASSUME NEW rs \in Unnamed(2)
  PROVE  /\ rs \in SUBSET Registers /\ Cardinality(rs) \in Nat
         /\ (CHOOSE r \in rs : TRUE) \in rs
         /\ (CHOOSE s \in rs : s # CHOOSE r \in rs : TRUE) \in rs
         /\ (CHOOSE s \in rs : s # CHOOSE r \in rs : TRUE) # CHOOSE r \in rs : TRUE
<1>1. rs \in SUBSET Registers /\ Cardinality(rs) = 2
  BY DEF Unnamed
<1>2. rs # {}
  <2> SUFFICES ASSUME rs = {}
               PROVE  FALSE
    OBVIOUS
  <2>1. Cardinality(rs) = 0
    BY FS_EmptySet
  <2> QED BY <1>1, <2>1
<1>3. PICK x \in rs : x = CHOOSE r \in rs : TRUE
  BY <1>2
<1>4. \E s \in rs : s # x
  <2> SUFFICES ASSUME \A s \in rs : s = x
               PROVE  FALSE
    OBVIOUS
  <2>1. rs = {x}
    OBVIOUS
  <2>2. Cardinality({x}) = 1
    BY FS_Singleton
  <2> QED BY <1>1, <2>1, <2>2
<1>5. (CHOOSE s \in rs : s # x) \in rs /\ (CHOOSE s \in rs : s # x) # x
  BY <1>4
<1> QED BY <1>1, <1>3, <1>5

-----------------------------------------------------------------------------
\* An operation with a result.
LEMMA ResultSound ==
  ASSUME EditingInv, NEW n \in DOMAIN fn.blocks, NEW op \in OpsOf, NEW inputs \in SUBSET Operands,
         NEW r \in ResultOf(n, op, inputs)
  PROVE  Sound(fn, r)
<1>1. Good(fn)
  BY DEF EditingInv
<1>2. PICK rs \in Unnamed(1) : \E u \in inputs : r = ValueOperation(fn, n, Insn(op, CHOOSE x \in rs : TRUE, u, <<>>))
  BY DEF ResultOf
<1>3. PICK u \in inputs : r = ValueOperation(fn, n, Insn(op, CHOOSE x \in rs : TRUE, u, <<>>))
  BY <1>2
<1>4. PICK x \in Registers : x = CHOOSE y \in rs : TRUE
  BY UnnamedOne
<1>5. x \in Operands /\ u \in Operands
  BY DEF Operands
<1>6. PICK t : t = Insn(op, x, u, <<>>)
  OBVIOUS
<1>7. t \in InsTemplates /\ t.d \in Registers
  BY <1>5, <1>6, OperationTyped
<1>8. Sound(fn, ValueOperation(fn, n, t))
  BY <1>1, <1>7, ValueSound
<1> QED BY <1>3, <1>4, <1>6, <1>8

\* An operation without one.
LEMMA WriteSound ==
  ASSUME EditingInv, NEW n \in DOMAIN fn.blocks, NEW op \in OpsOf, NEW d \in Operands, NEW u \in Operands
  PROVE  Sound(fn, EmitAt(fn, n, Insn(op, d, u, <<>>)))
<1>1. Good(fn)
  BY DEF EditingInv
<1>2. PICK t : t = Insn(op, d, u, <<>>)
  OBVIOUS
<1>3. t \in InsTemplates
  BY <1>2, OperationTyped
<1>4. Sound(fn, EmitAt(fn, n, t))
  BY <1>1, <1>3, EmitSound
<1> QED BY <1>2, <1>4

\* Staged operations: one or two of them.
LEMMA CallsSound ==
  ASSUME EditingInv, NEW n \in DOMAIN fn.blocks, NEW r \in Calls(n)
  PROVE  Sound(fn, r)
<1>1. Good(fn)
  BY DEF EditingInv
<1>2. PICK rs \in Unnamed(1) : \E u \in Registers \cup {NoReg} :
         r = Staged(fn, n, rs, <<Insn("call", CHOOSE x \in rs : TRUE, u, <<>>)>>)
  BY DEF Calls
<1>3. PICK u \in Registers \cup {NoReg} : r = Staged(fn, n, rs, <<Insn("call", CHOOSE x \in rs : TRUE, u, <<>>)>>)
  BY <1>2
<1>4. PICK x \in Registers : x = CHOOSE y \in rs : TRUE
  BY UnnamedOne
<1>5. x \in Operands /\ u \in Operands /\ "call" \in OpsOf
  BY DEF Operands, OpsOf
<1>6. PICK t \in InsTemplates : t = Insn("call", x, u, <<>>)
  BY <1>5, OperationTyped
<1>7. PICK ts \in Seq(InsTemplates) : ts = <<t>>
  BY ShortSequences
<1>8. Sound(fn, Staged(fn, n, rs, ts))
  BY <1>1, UnnamedOne, StagedSound
<1> QED BY <1>3, <1>4, <1>6, <1>7, <1>8

\* An address and the store to it.
VariableCall(n, rs, u) ==
  Staged(fn, n, rs, <<Insn("mov", CHOOSE r \in rs : TRUE, NoReg, <<>>),
                      Insn("store", u, CHOOSE r \in rs : TRUE, <<>>)>>)

\* Variables: an address and what is stored there.
LEMMA VariablesSound ==
  ASSUME EditingInv, NEW n \in DOMAIN fn.blocks, NEW o \in Variables(n)
  PROVE  Sound(fn, o)
<1>1. Good(fn) /\ fn.regs \subseteq Registers
  BY DEF EditingInv, Good, Bodies
<1>2. Variables(n) = {VariableCall(n, rs, u) : rs \in Unnamed(1), u \in fn.regs \cup {NoReg}}
  BY DEF Variables, VariableCall
<1>3. PICK rs \in Unnamed(1), u \in fn.regs \cup {NoReg} : o = VariableCall(n, rs, u)
  BY <1>2
<1>4. PICK x \in Registers : x = CHOOSE y \in rs : TRUE
  BY UnnamedOne
<1>5. x \in Operands /\ u \in Operands /\ NoReg \in Operands /\ "mov" \in OpsOf /\ "store" \in OpsOf
  BY <1>1 DEF Operands, OpsOf
<1>6. PICK s \in InsTemplates : s = Insn("mov", x, NoReg, <<>>)
  BY <1>5, OperationTyped
<1>7. PICK t \in InsTemplates : t = Insn("store", u, x, <<>>)
  BY <1>5, OperationTyped
<1>8. PICK ts \in Seq(InsTemplates) : ts = <<s, t>>
  BY ShortSequences
<1>9. Sound(fn, Staged(fn, n, rs, ts))
  BY <1>1, UnnamedOne, StagedSound
<1> QED BY <1>3, <1>4, <1>6, <1>7, <1>8, <1>9 DEF VariableCall

\* Converts: two extensions.
LEMMA ConvertsSound ==
  ASSUME EditingInv, NEW n \in DOMAIN fn.blocks, NEW r \in Converts(n)
  PROVE  Sound(fn, r)
<1>1. Good(fn) /\ fn.regs \subseteq Registers
  BY DEF EditingInv, Good, Bodies
<1>2. PICK rs \in Unnamed(2) : \E u \in fn.regs :
         r = Staged(fn, n, rs, <<Insn("ext", CHOOSE x \in rs : TRUE, u, <<>>),
                                 Insn("ext", CHOOSE s \in rs : s # CHOOSE x \in rs : TRUE, CHOOSE x \in rs : TRUE, <<>>)>>)
  BY DEF Converts
<1>3. PICK u \in fn.regs :
         r = Staged(fn, n, rs, <<Insn("ext", CHOOSE x \in rs : TRUE, u, <<>>),
                                 Insn("ext", CHOOSE s \in rs : s # CHOOSE x \in rs : TRUE, CHOOSE x \in rs : TRUE, <<>>)>>)
  BY <1>2
<1>4. PICK x \in Registers : x = CHOOSE y \in rs : TRUE
  BY UnnamedTwo
<1>5. PICK z \in Registers : z = CHOOSE s \in rs : s # x
  BY <1>4, UnnamedTwo
<1>6. x \in Operands /\ u \in Operands /\ z \in Operands /\ "ext" \in OpsOf
  BY <1>1 DEF Operands, OpsOf
<1>7. PICK s \in InsTemplates : s = Insn("ext", x, u, <<>>)
  BY <1>6, OperationTyped
<1>8. PICK t \in InsTemplates : t = Insn("ext", z, x, <<>>)
  BY <1>6, OperationTyped
<1>9. PICK ts \in Seq(InsTemplates) : ts = <<s, t>>
  BY ShortSequences
<1>10. Sound(fn, Staged(fn, n, rs, ts))
  BY <1>1, UnnamedTwo, StagedSound
<1> QED BY <1>3, <1>4, <1>5, <1>7, <1>8, <1>9, <1>10

\* The address of a label of the batch.
LEMMA AddressesSound ==
  ASSUME EditingInv, NEW b \in Batches, NEW n \in DOMAIN fn.blocks, NEW r \in Addresses(b, n)
  PROVE  Sound(fn, r)
<1>1. Good(fn)
  BY DEF EditingInv
<1>2. PICK h \in LabelArgs(b) : \E x \in Registers :
         r = IF Owned(b, h) THEN ValueOperation(fn, n, Insn("laddr", x, NoReg, <<h.node>>)) ELSE Refused(fn)
  BY DEF Addresses
<1>3. PICK x \in Registers :
         r = IF Owned(b, h) THEN ValueOperation(fn, n, Insn("laddr", x, NoReg, <<h.node>>)) ELSE Refused(fn)
  BY <1>2
<1>4. PICK l \in LiveNodes : l = h.node
  BY LabelArgument
<1>5. PICK ls \in Seq(LiveNodes) : ls = <<l>>
  BY ShortSequences
<1>6. "laddr" \in Opcodes /\ x \in Operands /\ NoReg \in Operands
  BY DEF Opcodes, Operands
<1>7. PICK t : t = Insn("laddr", x, NoReg, ls)
  OBVIOUS
<1>8. t \in InsTemplates /\ t.d \in Registers
  BY <1>6, <1>7, InsnTyped
<1>9. Sound(fn, ValueOperation(fn, n, t))
  BY <1>1, <1>8, ValueSound
<1>10. r = ValueOperation(fn, n, t) \/ r = Refused(fn)
  BY <1>3, <1>4, <1>5, <1>7
<1> QED BY <1>1, <1>9, <1>10, RefusedSound

StoreCall(n, rs, a, v) == StoreLane(fn, n, a, v, CHOOSE r \in rs : TRUE)
LoadCall(n, rs, a, v) == LoadLane(fn, n, a, v, CHOOSE r \in rs : TRUE, CHOOSE d \in rs : d # CHOOSE r \in rs : TRUE)

\* The stores and loads of lanes.
LEMMA LanesSound ==
  ASSUME EditingInv, NEW n \in DOMAIN fn.blocks, NEW o \in LaneOperations(n)
  PROVE  SoundOrLoad(fn, o)
<1>1. Good(fn) /\ fn.regs \subseteq Registers
  BY DEF EditingInv, Good, Bodies
<1>2. LaneOperations(n)
      = {StoreCall(n, rs, a, v) : rs \in Unnamed(1), a \in Registers \cup {NoReg}, v \in fn.regs}
        \cup {LoadCall(n, rs, a, v) : rs \in Unnamed(2), a \in Registers \cup {NoReg}, v \in fn.regs \cup {NoReg}}
  BY DEF LaneOperations, StoreCall, LoadCall
<1>3. ASSUME NEW rs \in Unnamed(1), NEW a \in Registers \cup {NoReg}, NEW v \in fn.regs
      PROVE  Sound(fn, StoreCall(n, rs, a, v))
  <2>1. PICK x \in Registers : x = CHOOSE r \in rs : TRUE
    BY UnnamedOne
  <2>2. a \in Operands /\ v \in Operands
    BY <1>1 DEF Operands
  <2>3. Sound(fn, StoreLane(fn, n, a, v, x))
    BY <1>1, <2>2, StoreLaneSound
  <2> QED BY <2>1, <2>3 DEF StoreCall
<1>4. ASSUME NEW rs \in Unnamed(2), NEW a \in Registers \cup {NoReg}, NEW v \in fn.regs \cup {NoReg}
      PROVE  SoundOrLoad(fn, LoadCall(n, rs, a, v))
  <2>1. rs \subseteq Registers \ fn.regs
    BY <1>4 DEF Unnamed
  <2>2. PICK x \in Registers : x = CHOOSE r \in rs : TRUE
    BY UnnamedTwo
  <2>3. PICK z \in Registers \ fn.regs : z = CHOOSE d \in rs : d # x
    BY <2>1, <2>2, UnnamedTwo
  <2>4. z # x
    BY <2>2, <2>3, UnnamedTwo
  <2>5. a \in Operands
    BY <1>1 DEF Operands
  <2>6. SoundOrLoad(fn, LoadLane(fn, n, a, v, x, z))
    BY <1>1, <2>4, <2>5, LoadLaneSound
  <2> QED BY <2>2, <2>3, <2>6 DEF LoadCall
<1>5. CASE \E rs \in Unnamed(1), a \in Registers \cup {NoReg}, v \in fn.regs : o = StoreCall(n, rs, a, v)
  <2>1. PICK rs \in Unnamed(1), a \in Registers \cup {NoReg}, v \in fn.regs : o = StoreCall(n, rs, a, v)
    BY <1>5
  <2> QED BY <1>3, <2>1, SoundLeaves
<1>6. CASE \E rs \in Unnamed(2), a \in Registers \cup {NoReg}, v \in fn.regs \cup {NoReg} : o = LoadCall(n, rs, a, v)
  <2>1. PICK rs \in Unnamed(2), a \in Registers \cup {NoReg}, v \in fn.regs \cup {NoReg} : o = LoadCall(n, rs, a, v)
    BY <1>6
  <2> QED BY <1>4, <2>1
<1> QED BY <1>2, <1>5, <1>6

\* All the calls that write at the end of a block.
LEMMA OutcomesSound ==
  ASSUME EditingInv, NEW b \in Batches, NEW n \in DOMAIN fn.blocks, NEW r \in Outcomes(b, n)
  PROVE  SoundOrLoad(fn, r)
<1>1. Good(fn) /\ fn.regs \subseteq Registers
  BY DEF EditingInv, Good, Bodies
<1>2. /\ Registers \in SUBSET Operands /\ fn.regs \in SUBSET Operands /\ NoReg \in Operands
      /\ \A u \in Registers \cup {NoReg} : u \in Operands
      /\ \A u \in fn.regs \cup {NoReg} : u \in Operands
  BY <1>1 DEF Operands
<1>3. ASSUME r \in Emits(n) PROVE Sound(fn, r)
  <2>1. PICK t \in Templates : r = EmitAt(fn, n, t)
    BY <1>3 DEF Emits
  <2> QED BY <1>1, <2>1, TemplatesTyped, EmitSound
<1>4. ASSUME r \in Values(n) PROVE Sound(fn, r)
  <2>1. PICK x \in Registers : r = ValueOperation(fn, n, Insn("mov", x, NoReg, <<>>))
    BY <1>4 DEF Values
  <2>2. PICK t : t = Insn("mov", x, NoReg, <<>>)
    OBVIOUS
  <2>3. "mov" \in OpsOf
    BY DEF OpsOf
  <2>4. t \in InsTemplates /\ t.d \in Registers
    BY <1>2, <2>2, <2>3, OperationTyped
  <2> QED BY <1>1, <2>1, <2>2, <2>4, ValueSound
<1>5. ASSUME r \in Vectors(n) PROVE Sound(fn, r)
  <2>1. r \in ResultOf(n, "vector", Registers) /\ "vector" \in OpsOf
    BY <1>5 DEF Vectors, OpsOf
  <2> QED BY <1>2, <2>1, ResultSound
<1>6. ASSUME r \in Loads(n) PROVE Sound(fn, r)
  <2>1. r \in ResultOf(n, "load", Registers) /\ "load" \in OpsOf
    BY <1>6 DEF Loads, OpsOf
  <2> QED BY <1>2, <2>1, ResultSound
<1>7. ASSUME r \in Stores(n) PROVE Sound(fn, r)
  <2>1. PICK d \in fn.regs : \E u \in Registers : r = EmitAt(fn, n, Insn("store", d, u, <<>>))
    BY <1>7 DEF Stores
  <2>2. PICK u \in Registers : r = EmitAt(fn, n, Insn("store", d, u, <<>>))
    BY <2>1
  <2>3. "store" \in OpsOf /\ d \in Operands /\ u \in Operands
    BY <1>2 DEF OpsOf
  <2> QED BY <2>2, <2>3, WriteSound
<1>8. ASSUME r \in RetCalls(n) PROVE Sound(fn, r)
  <2>1. PICK u \in Registers \cup {NoReg} : r = EmitAt(fn, n, Insn("ret", NoReg, u, <<>>))
    BY <1>8 DEF RetCalls
  <2>2. "ret" \in OpsOf
    BY DEF OpsOf
  <2> QED BY <1>2, <2>1, <2>2, WriteSound
<1>9. ASSUME r \in JumpCalls(n) PROVE Sound(fn, r)
  <2>1. PICK op \in {"jcall", "jret"} : \E u \in fn.regs \cup {NoReg} : r = EmitAt(fn, n, Insn(op, NoReg, u, <<>>))
    BY <1>9 DEF JumpCalls
  <2>2. PICK u \in fn.regs \cup {NoReg} : r = EmitAt(fn, n, Insn(op, NoReg, u, <<>>))
    BY <2>1
  <2>3. op \in OpsOf
    BY DEF OpsOf
  <2> QED BY <1>2, <2>2, <2>3, WriteSound
<1>10. ASSUME r \in Stack(n) PROVE Sound(fn, r)
  <2>1. "alloca" \in OpsOf /\ "restore" \in OpsOf
    BY DEF OpsOf
  <2>2. r \in ResultOf(n, "alloca", fn.regs) \/ \E u \in Registers : r = EmitAt(fn, n, Insn("restore", NoReg, u, <<>>))
    BY <1>10 DEF Stack
  <2>3. CASE r \in ResultOf(n, "alloca", fn.regs)
    BY <1>2, <2>1, <2>3, ResultSound
  <2>4. CASE \E u \in Registers : r = EmitAt(fn, n, Insn("restore", NoReg, u, <<>>))
    <3>1. PICK u \in Registers : r = EmitAt(fn, n, Insn("restore", NoReg, u, <<>>))
      BY <2>4
    <3>2. u \in Operands
      BY <1>2
    <3> QED BY <1>2, <2>1, <3>1, <3>2, WriteSound
  <2> QED BY <2>2, <2>3, <2>4
<1>11. ASSUME r \in Variadics(n) PROVE Sound(fn, r)
  <2>1. "vaarg" \in OpsOf /\ "vastart" \in OpsOf
    BY DEF OpsOf
  <2>2. r \in ResultOf(n, "vaarg", fn.regs) \/ \E u \in fn.regs : r = EmitAt(fn, n, Insn("vastart", NoReg, u, <<>>))
    BY <1>11 DEF Variadics
  <2>3. CASE r \in ResultOf(n, "vaarg", fn.regs)
    BY <1>2, <2>1, <2>3, ResultSound
  <2>4. CASE \E u \in fn.regs : r = EmitAt(fn, n, Insn("vastart", NoReg, u, <<>>))
    <3>1. PICK u \in fn.regs : r = EmitAt(fn, n, Insn("vastart", NoReg, u, <<>>))
      BY <2>4
    <3>2. u \in Operands
      BY <1>2
    <3> QED BY <1>2, <2>1, <3>1, <3>2, WriteSound
  <2> QED BY <2>2, <2>3, <2>4
<1>12. CASE r \in LaneOperations(n)
  BY <1>12, LanesSound
<1>13. ASSUME r \in Addresses(b, n) PROVE Sound(fn, r)
  BY <1>13, AddressesSound
<1>14. ASSUME r \in Calls(n) PROVE Sound(fn, r)
  BY <1>14, CallsSound
<1>15. ASSUME r \in Converts(n) PROVE Sound(fn, r)
  BY <1>15, ConvertsSound
<1>16. ASSUME r \in Variables(n) PROVE Sound(fn, r)
  BY <1>16, VariablesSound
<1>17. \/ r \in Emits(n) \/ r \in Values(n) \/ r \in Vectors(n) \/ r \in Loads(n) \/ r \in Stores(n) \/ r \in RetCalls(n)
       \/ r \in JumpCalls(n) \/ r \in Stack(n) \/ r \in Variadics(n) \/ r \in Addresses(b, n) \/ r \in Calls(n)
       \/ r \in Converts(n) \/ r \in Variables(n) \/ r \in LaneOperations(n)
  BY DEF Outcomes
<1>18. Sound(fn, r) => SoundOrLoad(fn, r)
  BY SoundLeaves
<1> QED BY <1>3, <1>4, <1>5, <1>6, <1>7, <1>8, <1>9, <1>10, <1>11, <1>12, <1>13, <1>14, <1>15, <1>16, <1>17, <1>18

-----------------------------------------------------------------------------
\* The block a batch inserts at is one of the body, or there is none.
LEMMA InsertionPoint ==
  ASSUME EditingInv, NEW b \in Batches, ~InsertStale(b), batch[b].insert # None
  PROVE  /\ batch[b].insert \in OfBody("block", fn)
         /\ BlockAt(fn, batch[b].insert) \in DOMAIN fn.blocks
<1>1. batch[b].insert \in Nodes(fn)
  BY DEF InsertStale
<1>2. batch[b].insert \in OfBody("block", fn)
  BY <1>1, BatchTyped DEF BatchSound
<1> QED BY <1>2, BlockFound

\* A batch that inserts at a node of the body, or nowhere, is sound.
LEMMA InsertsAt ==
  ASSUME NEW f, Good(f), NEW v, v.insert = None \/ v.insert \in OfBody("block", f)
  PROVE  BatchSound(f, v)
<1>1. CASE v.insert = None
  <2>1. f.gen \in Nat
    BY DEF Good, Bodies
  <2>2. None \notin Nodes(f)
    <3>1. None \notin LiveNodes
      BY DEF None, LiveNodes
    <3> QED BY <3>1, NodesAreLive
  <2>3. None.g <= f.gen
    BY <2>1 DEF None
  <2> QED BY <1>1, <2>2, <2>3 DEF BatchSound
<1>2. CASE v.insert \in OfBody("block", f)
  <2>1. v.insert \in Nodes(f)
    <3>1. "block" \in Kinds
      BY DEF Kinds
    <3> QED BY <1>2, <3>1, KindsOfSeq, BodyNodes
  <2> QED BY <1>2, <2>1, NodesAreLive DEF BatchSound
<1> QED BY <1>1, <1>2

\* Writing at the end of a block, or nowhere.
LEMMA EmitOnSound ==
  ASSUME NEW f, Good(f), NEW n, n = None \/ n \in OfBody("block", f), NEW t \in InsTemplates
  PROVE  Sound(f, EmitOn(f, n, t)) /\ Grows(f, EmitOn(f, n, t).f)
<1>1. CASE n = None
  <2>1. EmitOn(f, n, t) = Refused(f) /\ Refused(f).f = f
    BY <1>1 DEF EmitOn, Refused
  <2> QED BY <2>1, RefusedSound, GrowsSame
<1>2. CASE n # None
  <2>1. EmitOn(f, n, t) = EmitAt(f, BlockAt(f, n), t)
    BY <1>2 DEF EmitOn
  <2>2. BlockAt(f, n) \in DOMAIN f.blocks
    BY <1>2, BlockFound
  <2> QED BY <2>1, <2>2, EmitSound
<1> QED BY <1>1, <1>2

\* The label a batch jumps to a block by.
LEMMA AnchoredSound ==
  ASSUME NEW f, Good(f), NEW view \in BatchRecords, NEW n \in OfBody("block", f)
  PROVE  LET to == Anchored(f, view, n)
         IN  /\ Grows(f, to.f) /\ to.f.regs = f.regs /\ Written(to.f) = Written(f)
             /\ to.view \in BatchRecords /\ to.view.insert = view.insert /\ to.view.status = view.status
             /\ to.label \in LiveNodes
<1> DEFINE to == Anchored(f, view, n)
<1>1. PICK c \in DOMAIN f.blocks : c = BlockAt(f, n)
  BY BlockFound
<1>2. n \in LiveNodes
  <2>1. "block" \in Kinds
    BY DEF Kinds
  <2> QED BY <2>1, KindsOfSeq, BodyNodes, NodesAreLive
<1>3. CASE n.a \in DOMAIN view.anchors
  <2>1. to.f = f /\ to.view = view /\ to.label = view.anchors[n.a]
    BY <1>3 DEF Anchored
  <2>2. view.anchors \in Anchors
    BY DEF BatchRecords
  <2>3. view.anchors[n.a] \in LiveNodes
    BY <1>3, <2>2 DEF Anchors
  <2> QED BY <2>1, <2>3, GrowsSame
<1>4. CASE n.a \notin DOMAIN view.anchors
  <2>1. PICK g : g = CreateLabel(f, c)
    OBVIOUS
  <2>2. /\ Grows(f, g) /\ g.regs = f.regs /\ Last(g.blocks[c].labels) = NewNode(f)
        /\ DOMAIN g.blocks = DOMAIN f.blocks /\ \A d \in DOMAIN f.blocks : g.blocks[d].ins = f.blocks[d].ins
    BY <2>1, CreateLabelGrows
  <2>3. PICK l \in LiveNodes : l = NewNode(f)
    BY NewNodeFresh
  <2>4. PICK x : x = [a \in DOMAIN view.anchors \cup {n.a} |-> IF a = n.a THEN l ELSE view.anchors[a]]
    OBVIOUS
  <2>5. x \in Anchors
    <3>1. PICK S \in SUBSET (Nat \ {0}) : view.anchors \in [S -> LiveNodes]
      BY DEF BatchRecords, Anchors
    <3>2. n.a \in Nat \ {0}
      BY <1>2 DEF LiveNodes
    <3>3. DOMAIN view.anchors = S
      BY <3>1
    <3>4. x \in [S \cup {n.a} -> LiveNodes]
      BY <2>3, <2>4, <3>1, <3>3
    <3>5. S \cup {n.a} \in SUBSET (Nat \ {0})
      BY <3>2
    <3> QED BY <3>4, <3>5 DEF Anchors
  <2>6. PICK w : w = [view EXCEPT !.anchors = x]
    OBVIOUS
  <2>7. w \in BatchRecords /\ w.insert = view.insert /\ w.status = view.status
    BY <2>5, <2>6 DEF BatchRecords
  <2>8. to.f = g /\ to.label = l /\ to.view = w
    BY <1>1, <1>4, <2>1, <2>2, <2>3, <2>4, <2>6 DEF Anchored
  <2>9. Written(g) = Written(f)
    BY <2>2 DEF Written
  <2> QED BY <2>2, <2>3, <2>7, <2>8, <2>9
<1> QED BY <1>3, <1>4

\* A jump by labels of the batch, or one that goes astray.
LEMMA JumpViaKeeps ==
  ASSUME EditingInv, NEW b \in Batches, NEW to, Grows(fn, to.f), Written(to.f) = Written(fn), to.view \in BatchRecords,
         to.view.insert = batch[b].insert, to.view.status = batch[b].status, NEW t \in InsTemplates, JumpVia(b, to, t)
  PROVE  Keeps(b)
<1>1. CASE InsertStale(b) \/ \E l \in Range(t.l) : l \notin Labels(to.f)
  <2>1. Astray
    BY <1>1 DEF JumpVia
  <2> QED BY <2>1, AstrayKeeps
<1>2. CASE ~InsertStale(b) /\ ~\E l \in Range(t.l) : l \notin Labels(to.f)
  <2>1. PICK n : n = batch[b].insert
    OBVIOUS
  <2>2. PICK g : g = to.f
    OBVIOUS
  <2>3. PICK r : r = EmitOn(g, n, t)
    OBVIOUS
  <2>4. Publish(b, r, to.view)
    BY <1>2, <2>1, <2>2, <2>3 DEF JumpVia
  <2>5. Good(fn) /\ Good(g) /\ Grows(fn, g)
    BY <2>2, BatchTyped DEF Grows
  <2>6. n = None \/ n \in OfBody("block", g)
    <3>1. n = None \/ n \in OfBody("block", fn)
      BY <1>2, <2>1, InsertionPoint
    <3>2. "block" \in Kinds
      BY DEF Kinds
    <3> QED BY <2>5, <3>1, <3>2 DEF Grows
  <2>7. Sound(g, r) /\ Grows(g, r.f)
    BY <2>3, <2>5, <2>6, EmitOnSound
  <2>8. Grows(fn, r.f) /\ r.ok \in BOOLEAN /\ (~r.ok => Written(r.f) = Written(fn))
    BY <2>2, <2>5, <2>7, GrowsOn DEF Sound
  <2>9. PICK v \in BatchRecords : v = to.view
    OBVIOUS
  <2>10. BatchSound(r.f, v)
    <3>1. BatchSound(g, v)
      BY <2>1, <2>5, <2>6, <2>9, InsertsAt
    <3>2. v.insert \in Positions
      BY <2>9 DEF BatchRecords
    <3>3. Evolves(g, r.f)
      BY <2>7 DEF Sound
    <3> QED BY <2>5, <3>1, <3>2, <3>3, BatchAfter
  <2>11. Publish(b, r, v) /\ v.status = batch[b].status /\ Evolves(fn, r.f)
    BY <2>4, <2>8, <2>9 DEF Evolves
  <2> QED BY <2>8, <2>10, <2>11, PublishKeeps DEF SoundOrLoad
<1> QED BY <1>1, <1>2

\* Jump: by the batch's label of the block, made where there was none.
LEMMA JumpKeeps ==
  ASSUME EditingInv, NEW b \in Batches, Jump(b)
  PROVE  Keeps(b)
<1>1. PICK h \in BlockArgs(b), op \in {"jmp", "bt"} :
         IF ~Owned(b, h) THEN Apply(b, Refused(fn))
         ELSE LET to == Anchored(fn, batch[b], h.node) IN JumpVia(b, to, Insn(op, NoReg, NoReg, <<to.label>>))
  BY DEF Jump
<1>2. batch[b] \in BatchRecords /\ Good(fn)
  BY BatchTyped
<1>3. CASE ~Owned(b, h)
  BY <1>1, <1>2, <1>3, RefusedSound, ApplyKeeps
<1>4. CASE Owned(b, h)
  <2>1. PICK v \in BatchRecords : v = batch[b]
    BY <1>2
  <2>2. PICK n \in OfBody("block", fn) : n = h.node
    BY <1>4, BlockArgument
  <2>3. PICK to : to = Anchored(fn, v, n)
    OBVIOUS
  <2>4. /\ Grows(fn, to.f) /\ Written(to.f) = Written(fn) /\ to.label \in LiveNodes
        /\ to.view \in BatchRecords /\ to.view.insert = v.insert /\ to.view.status = v.status
    BY <1>2, <2>3, AnchoredSound
  <2>5. PICK ls \in Seq(LiveNodes) : ls = <<to.label>>
    BY <2>4, ShortSequences
  <2>6. PICK t \in InsTemplates : t = Insn(op, NoReg, NoReg, ls)
    <3>1. op \in Opcodes /\ NoReg \in Operands
      BY DEF Opcodes, Operands
    <3> QED BY <3>1, InsnTyped
  <2>7. JumpVia(b, to, t)
    BY <1>1, <1>4, <2>1, <2>2, <2>3, <2>5, <2>6
  <2> QED BY <2>1, <2>4, <2>7, JumpViaKeeps
<1> QED BY <1>3, <1>4

\* Switch: two labels, the second made in the body the first left.
LEMMA SwitchKeeps ==
  ASSUME EditingInv, NEW b \in Batches, Switch(b)
  PROVE  Keeps(b)
<1>1. PICK h \in BlockArgs(b), k \in BlockArgs(b) :
         IF ~Owned(b, h) \/ ~Owned(b, k) THEN Apply(b, Refused(fn))
         ELSE LET first == Anchored(fn, batch[b], h.node)
                  second == Anchored(first.f, first.view, k.node)
              IN  JumpVia(b, second, Insn("switch", NoReg, NoReg, <<first.label, second.label>>))
  BY DEF Switch
<1>2. batch[b] \in BatchRecords /\ Good(fn)
  BY BatchTyped
<1>3. CASE ~Owned(b, h) \/ ~Owned(b, k)
  BY <1>1, <1>2, <1>3, RefusedSound, ApplyKeeps
<1>4. CASE Owned(b, h) /\ Owned(b, k)
  <2>1. PICK v \in BatchRecords : v = batch[b]
    BY <1>2
  <2>2. PICK n \in OfBody("block", fn) : n = h.node
    BY <1>4, BlockArgument
  <2>3. PICK first : first = Anchored(fn, v, n)
    OBVIOUS
  <2>4. /\ Grows(fn, first.f) /\ Written(first.f) = Written(fn) /\ first.label \in LiveNodes
        /\ first.view \in BatchRecords /\ first.view.insert = v.insert /\ first.view.status = v.status
    BY <1>2, <2>3, AnchoredSound
  <2>5. PICK g : g = first.f
    OBVIOUS
  <2>6. PICK w \in BatchRecords : w = first.view
    BY <2>4
  <2>7. Good(g) /\ Grows(fn, g) /\ Written(g) = Written(fn)
    BY <2>4, <2>5 DEF Grows
  <2>8. PICK m \in OfBody("block", g) : m = k.node
    <3>1. k.node \in OfBody("block", fn)
      BY <1>4, BlockArgument
    <3>2. "block" \in Kinds
      BY DEF Kinds
    <3> QED BY <2>7, <3>1, <3>2 DEF Grows
  <2>9. PICK to : to = Anchored(g, w, m)
    OBVIOUS
  <2>10. /\ Grows(g, to.f) /\ Written(to.f) = Written(g) /\ to.label \in LiveNodes
         /\ to.view \in BatchRecords /\ to.view.insert = w.insert /\ to.view.status = w.status
    BY <2>7, <2>9, AnchoredSound
  <2>11. /\ Grows(fn, to.f) /\ Written(to.f) = Written(fn)
         /\ to.view.insert = batch[b].insert /\ to.view.status = batch[b].status
    BY <1>2, <2>1, <2>4, <2>6, <2>7, <2>10, GrowsOn
  <2>12. PICK ls \in Seq(LiveNodes) : ls = <<first.label, to.label>>
    BY <2>4, <2>10, ShortSequences
  <2>13. PICK t \in InsTemplates : t = Insn("switch", NoReg, NoReg, ls)
    <3>1. "switch" \in Opcodes /\ NoReg \in Operands
      BY DEF Opcodes, Operands
    <3> QED BY <3>1, InsnTyped
  <2>14. JumpVia(b, to, t)
    BY <1>1, <1>4, <2>1, <2>2, <2>3, <2>5, <2>6, <2>8, <2>9, <2>12, <2>13
  <2> QED BY <2>10, <2>11, <2>14, JumpViaKeeps
<1> QED BY <1>3, <1>4

-----------------------------------------------------------------------------
\* The block a scope of the stack begins or ends with, where the batch then inserts.
LEMMA ScopeBlock ==
  ASSUME EditingInv, NEW b \in Batches, ~InsertStale(b), batch[b].insert # None, NEW scope \in {0, 1},
         NEW n, n = BlockAt(fn, batch[b].insert) + 1, NEW f, f = CreateBlock(fn, n, scope)
  PROVE  LET v == [batch[b] EXCEPT !.insert = f.blocks[n].n, !.scope = scope]
         IN  Grows(fn, f) /\ v \in BatchRecords /\ BatchSound(f, v)
<1>1. batch[b] \in BatchRecords /\ Good(fn)
  BY BatchTyped
<1>2. n \in 1..(Len(fn.blocks) + 1)
  <2>1. PICK m \in Nat : m = Len(fn.blocks)
    BY <1>1, GoodBlocks
  <2>2. BlockAt(fn, batch[b].insert) \in 1..m
    BY <1>1, <2>1, InsertionPoint, GoodBlocks
  <2> QED BY <2>1, <2>2
<1>3. /\ Grows(fn, f) /\ InsertedAs(f.blocks, fn.blocks, n, Block(NewNode(fn), scope))
      /\ NewNode(fn) \in OfBody("block", f)
  BY <1>1, <1>2, CreateBlockGrows
<1>4. InsertedAs(f.blocks, fn.blocks, n, Block(NewNode(fn), 0)) \/ InsertedAs(f.blocks, fn.blocks, n, Block(NewNode(fn), 1))
  <2>1. scope = 0 \/ scope = 1
    OBVIOUS
  <2> QED BY <1>3, <2>1
<1>5. f.blocks[n].n = NewNode(fn)
  BY <1>1, <1>2, <1>4, AroundNewBlock
<1>6. PICK x : x = f.blocks[n].n
  OBVIOUS
<1>7. x \in LiveNodes /\ x \in OfBody("block", f)
  BY <1>1, <1>3, <1>5, <1>6, NewNodeFresh
<1>8. PICK v : v = [batch[b] EXCEPT !.insert = x, !.scope = scope]
  OBVIOUS
<1>9. v \in BatchRecords /\ v.insert = x /\ v.status = batch[b].status
  BY <1>1, <1>7, <1>8 DEF BatchRecords, Positions
<1>10. BatchSound(f, v)
  <2>1. Good(f)
    BY <1>3 DEF Grows
  <2> QED BY <1>7, <1>9, <2>1, InsertsAt
<1> QED BY <1>3, <1>6, <1>8, <1>9, <1>10

\* Publishing a body that grew.
LEMMA GrownKeeps ==
  ASSUME EditingInv, NEW b \in Batches, NEW f, Grows(fn, f), NEW v \in BatchRecords, BatchSound(f, v),
         v.status = batch[b].status, Publish(b, Done(f), v)
  PROVE  Keeps(b)
<1>1. PICK r : r = Done(f)
  OBVIOUS
<1>2. r.f = f /\ r.ok = TRUE
  BY <1>1 DEF Done
<1>3. /\ Evolves(fn, r.f) /\ r.ok \in BOOLEAN /\ (~r.ok => Written(r.f) = Written(fn))
      /\ BatchSound(r.f, v) /\ Publish(b, r, v)
  BY <1>1, <1>2 DEF Evolves
<1> QED BY <1>3, PublishKeeps DEF SoundOrLoad

\* A refused call.
LEMMA RefusedKeeps ==
  ASSUME EditingInv, NEW b \in Batches, Apply(b, Refused(fn))
  PROVE  Keeps(b)
<1>1. Sound(fn, Refused(fn))
  BY BatchTyped, RefusedSound
<1> QED BY <1>1, ApplyKeeps

\* BeginScope: the batch goes on in a block of its own.
LEMMA BeginScopeKeeps ==
  ASSUME EditingInv, NEW b \in Batches, BeginScope(b)
  PROVE  Keeps(b)
<1>1. CASE InsertStale(b)
  BY <1>1, AstrayKeeps DEF BeginScope
<1>2. CASE ~InsertStale(b) /\ batch[b].insert = None
  BY <1>2, RefusedKeeps DEF BeginScope
<1>3. CASE ~InsertStale(b) /\ batch[b].insert # None
  <2>1. PICK n : n = BlockAt(fn, batch[b].insert) + 1
    OBVIOUS
  <2>2. PICK f : f = CreateBlock(fn, n, 1)
    OBVIOUS
  <2>3. PICK v : v = [batch[b] EXCEPT !.insert = f.blocks[n].n, !.scope = 1]
    OBVIOUS
  <2>4. Apply(b, Refused(fn)) \/ Publish(b, Done(f), v)
    BY <1>3, <2>1, <2>2, <2>3 DEF BeginScope
  <2>5. PICK scope \in {0, 1} : scope = 1
    OBVIOUS
  <2>6. f = CreateBlock(fn, n, scope) /\ v = [batch[b] EXCEPT !.insert = f.blocks[n].n, !.scope = scope]
    BY <2>2, <2>3, <2>5
  <2>7. Grows(fn, f) /\ v \in BatchRecords /\ BatchSound(f, v)
    BY <1>3, <2>1, <2>6, ScopeBlock
  <2>8. v.status = batch[b].status
    BY <2>3, BatchTyped DEF BatchRecords
  <2> QED BY <2>4, <2>7, <2>8, RefusedKeeps, GrownKeeps
<1> QED BY <1>1, <1>2, <1>3

\* EndScope: the batch goes on in one more block, or in none.
LEMMA EndScopeKeeps ==
  ASSUME EditingInv, NEW b \in Batches, EndScope(b)
  PROVE  Keeps(b)
<1>1. CASE InsertStale(b)
  BY <1>1, AstrayKeeps DEF EndScope
<1>2. CASE ~InsertStale(b)
  <2>1. PICK w : w = [batch[b] EXCEPT !.insert = None, !.scope = 0]
    OBVIOUS
  <2>2. PICK n : n = BlockAt(fn, batch[b].insert) + 1
    OBVIOUS
  <2>3. PICK f : f = CreateBlock(fn, n, 0)
    OBVIOUS
  <2>4. PICK v : v = [batch[b] EXCEPT !.insert = f.blocks[n].n, !.scope = 0]
    OBVIOUS
  <2>5. \/ Apply(b, Refused(fn)) \/ Publish(b, Done(fn), w)
        \/ batch[b].insert # None /\ Publish(b, Done(f), v)
    BY <1>2, <2>1, <2>2, <2>3, <2>4 DEF EndScope
  <2>6. CASE Publish(b, Done(fn), w)
    <3>1. batch[b] \in BatchRecords /\ Good(fn)
      BY BatchTyped
    <3>2. w \in BatchRecords /\ w.insert = None /\ w.status = batch[b].status
      BY <2>1, <3>1 DEF BatchRecords, Positions
    <3>3. BatchSound(fn, w)
      BY <3>1, <3>2, InsertsAt
    <3>4. PICK g : g = fn
      OBVIOUS
    <3>5. Grows(fn, g) /\ Publish(b, Done(g), w) /\ BatchSound(g, w)
      BY <2>6, <3>1, <3>3, <3>4, GrowsSame
    <3> QED BY <3>2, <3>5, GrownKeeps
  <2>7. CASE batch[b].insert # None /\ Publish(b, Done(f), v)
    <3>1. PICK scope \in {0, 1} : scope = 0
      OBVIOUS
    <3>2. f = CreateBlock(fn, n, scope) /\ v = [batch[b] EXCEPT !.insert = f.blocks[n].n, !.scope = scope]
      BY <2>3, <2>4, <3>1
    <3>3. Grows(fn, f) /\ v \in BatchRecords /\ BatchSound(f, v)
      BY <1>2, <2>2, <2>7, <3>2, ScopeBlock
    <3>4. v.status = batch[b].status
      BY <2>4, BatchTyped DEF BatchRecords
    <3> QED BY <2>7, <3>3, <3>4, GrownKeeps
  <2> QED BY <2>5, <2>6, <2>7, RefusedKeeps
<1> QED BY <1>1, <1>2

\* PositionAt: the batch inserts at a block of its own.
LEMMA PositionAtKeeps ==
  ASSUME EditingInv, NEW b \in Batches, PositionAt(b)
  PROVE  Keeps(b)
<1>1. PICK h \in BlockArgs(b) :
         IF Owned(b, h)
         THEN Publish(b, Done(fn), [batch[b] EXCEPT !.insert = h.node, !.scope = fn.blocks[BlockNumber(h)].scope])
         ELSE Apply(b, Refused(fn))
  BY DEF PositionAt
<1>2. CASE ~Owned(b, h)
  BY <1>1, <1>2, RefusedKeeps
<1>3. CASE Owned(b, h)
  <2>1. batch[b] \in BatchRecords /\ Good(fn)
    BY BatchTyped
  <2>2. h.node \in LiveNodes /\ h.node \in OfBody("block", fn) /\ BlockNumber(h) \in DOMAIN fn.blocks
    BY <1>3, BlockArgument
  <2>3. PICK scope : scope = fn.blocks[BlockNumber(h)].scope
    OBVIOUS
  <2>4. scope \in {0, 1}
    <3>1. fn.blocks[BlockNumber(h)] \in BodyBlocks
      BY <2>1, <2>2, GoodBlocks
    <3> QED BY <2>3, <3>1 DEF BodyBlocks
  <2>5. PICK v : v = [batch[b] EXCEPT !.insert = h.node, !.scope = scope]
    OBVIOUS
  <2>6. v \in BatchRecords /\ v.insert = h.node /\ v.status = batch[b].status
    BY <2>1, <2>2, <2>4, <2>5 DEF BatchRecords, Positions
  <2>7. PICK g : g = fn
    OBVIOUS
  <2>8. BatchSound(g, v) /\ Grows(fn, g)
    BY <2>1, <2>2, <2>6, <2>7, InsertsAt, GrowsSame
  <2>9. Publish(b, Done(g), v)
    BY <1>1, <1>3, <2>3, <2>5, <2>7
  <2> QED BY <2>6, <2>8, <2>9, GrownKeeps
<1> QED BY <1>2, <1>3

\* All the calls of the client that builds.
LEMMA BuildingKeeps ==
  ASSUME EditingInv, NEW b \in Batches, Building(b)
  PROVE  Keeps(b)
<1>1. batch[b] \in BatchRecords /\ BatchSound(fn, batch[b]) /\ Good(fn)
  BY BatchTyped
<1>2. ASSUME NEW v \in BatchRecords, v.insert = batch[b].insert, v.status = batch[b].status, v.error \in BOOLEAN,
             batch' = [batch EXCEPT ![b] = v], editError' = v.error, pass' = pass, fn' = fn, handles' = handles
      PROVE  Keeps(b)
  <2>1. Evolves(fn, fn') /\ BatchSound(fn', v)
    BY <1>1, <1>2, GrowsSame DEF Evolves, BatchSound
  <2>2. EditingInv'
    BY <1>2, <2>1, StepKeeps
  <2>3. batch'[b] = v /\ \A c \in Batches : c # b => batch'[c] = batch[c]
    <3>1. DOMAIN batch = Batches
      BY DEF EditingInv
    <3> QED BY <1>2, <3>1
  <2> QED BY <1>2, <2>2, <2>3 DEF Keeps, Effect
<1>3. CASE Unselected(b)
  <2>1. PICK v : v = [batch[b] EXCEPT !.error = TRUE]
    OBVIOUS
  <2>2. v \in BatchRecords /\ v.insert = batch[b].insert /\ v.status = batch[b].status /\ v.error = TRUE
    BY <1>1, <2>1 DEF BatchRecords
  <2>3. batch' = [batch EXCEPT ![b] = v] /\ editError' = v.error /\ v.error \in BOOLEAN
        /\ fn' = fn /\ handles' = handles /\ pass' = pass
    BY <1>3, <2>1, <2>2 DEF Unselected
  <2> QED BY <1>2, <2>2, <2>3
<1>4. CASE Declare(b)
  <2>1. PICK n \in Names : batch' = [batch EXCEPT ![b].error = n \in names] /\ editError' = (n \in names)
    BY <1>4 DEF Declare
  <2>2. PICK e \in BOOLEAN : e = (n \in names)
    <3>1. CASE n \in names
      <4>1. TRUE \in BOOLEAN /\ TRUE = (n \in names)
        BY <3>1
      <4> QED BY <4>1, Zenon
    <3>2. CASE n \notin names
      <4>1. FALSE \in BOOLEAN /\ FALSE = (n \in names)
        BY <3>2
      <4> QED BY <4>1, Zenon
    <3> QED BY <3>1, <3>2
  <2>3. PICK v : v = [batch[b] EXCEPT !.error = e]
    OBVIOUS
  <2>4. v \in BatchRecords /\ v.insert = batch[b].insert /\ v.status = batch[b].status /\ v.error = e
    BY <1>1, <2>2, <2>3 DEF BatchRecords
  <2>5. batch' = [batch EXCEPT ![b] = v] /\ editError' = v.error
    BY <2>1, <2>2, <2>3, <2>4
  <2>6. fn' = fn /\ handles' = handles /\ pass' = pass
    BY <1>4 DEF Declare
  <2> QED BY <1>2, <2>2, <2>4, <2>5, <2>6
<1>5. CASE WriteAtInsert(b)
  <2>1. CASE InsertStale(b)
    BY <1>5, <2>1, AstrayKeeps DEF WriteAtInsert
  <2>2. CASE ~InsertStale(b) /\ batch[b].insert = None
    BY <1>5, <2>2, RefusedKeeps DEF WriteAtInsert
  <2>3. CASE ~InsertStale(b) /\ batch[b].insert # None
    <3>1. PICK n : n = BlockAt(fn, batch[b].insert)
      OBVIOUS
    <3>2. PICK r \in Outcomes(b, n) : Apply(b, r)
      BY <1>5, <2>3, <3>1 DEF WriteAtInsert
    <3>3. n \in DOMAIN fn.blocks
      BY <2>3, <3>1, InsertionPoint
    <3> QED BY <3>2, <3>3, OutcomesSound, ApplyOrLoadKeeps
  <2> QED BY <2>1, <2>2, <2>3
<1>6. CASE Local(b)
  <2>1. PICK x \in Registers : Apply(b, CreateRegister(fn, x))
    BY <1>6 DEF Local
  <2>2. Sound(fn, CreateRegister(fn, x))
    BY <1>1, CreateRegisterSound
  <2> QED BY <2>1, <2>2, ApplyKeeps
<1>7. CASE NewBlock(b)
  <2>1. PICK scope \in {0, 1} : scope = batch[b].scope
    BY <1>1 DEF BatchRecords
  <2>2. PICK place : place = Len(fn.blocks) + 1
    OBVIOUS
  <2>3. place \in 1..(Len(fn.blocks) + 1)
    BY <1>1, <2>2, GoodBlocks
  <2>4. Grows(fn, CreateBlock(fn, place, scope))
    BY <1>1, <2>3, CreateBlockGrows
  <2>5. Sound(fn, Done(CreateBlock(fn, place, scope)))
    BY <2>4, DoneGrows
  <2> QED BY <1>7, <2>1, <2>2, <2>5, ApplyKeeps DEF NewBlock
<1>8. CASE NewLabel(b)
  <2>1. PICK h \in BlockArgs(b) : Apply(b, IF Owned(b, h) THEN Done(CreateLabel(fn, BlockNumber(h))) ELSE Refused(fn))
    BY <1>8 DEF NewLabel
  <2>2. CASE ~Owned(b, h)
    BY <2>1, <2>2, RefusedKeeps
  <2>3. CASE Owned(b, h)
    <3>1. PICK c \in DOMAIN fn.blocks : c = BlockNumber(h)
      BY <2>3, BlockArgument
    <3>2. Grows(fn, CreateLabel(fn, c))
      BY <1>1, CreateLabelGrows
    <3>3. Sound(fn, Done(CreateLabel(fn, c)))
      BY <3>2, DoneGrows
    <3> QED BY <2>1, <2>3, <3>1, <3>3, ApplyKeeps
  <2> QED BY <2>2, <2>3
<1>9. CASE DefineData(b)
  <2>1. PICK h \in LabelArgs(b) :
           IF h.batch = b /\ h.node \notin Labels(fn) THEN Astray
           ELSE Apply(b, IF h.batch = b THEN Done(DefineLabelData(fn, h.node)) ELSE Refused(fn))
    BY <1>9 DEF DefineData
  <2>2. PICK l \in LiveNodes : l = h.node
    BY LabelArgument
  <2>3. Sound(fn, Done(DefineLabelData(fn, l)))
    BY <1>1, DataSound, DoneGrows
  <2>4. Astray \/ Apply(b, Refused(fn)) \/ Apply(b, Done(DefineLabelData(fn, l)))
    BY <2>1, <2>2
  <2> QED BY <2>3, <2>4, AstrayKeeps, RefusedKeeps, ApplyKeeps
<1>10. CASE Entry(b)
  BY <1>10, AstrayKeeps DEF Entry
<1> QED BY <1>3, <1>4, <1>5, <1>6, <1>7, <1>8, <1>9, <1>10, PositionAtKeeps, JumpKeeps, SwitchKeeps, BeginScopeKeeps,
           EndScopeKeeps DEF Building

-----------------------------------------------------------------------------
\* What a batch forgets leaves it typed and sound.
LEMMA ForgetsSound ==
  ASSUME NEW f, Good(f), NEW view \in BatchRecords, BatchSound(f, view), NEW R
  PROVE  LET v == Forgets(view, f, R)
         IN  v \in BatchRecords /\ BatchSound(f, v) /\ v.status = view.status
<1>1. PICK S \in SUBSET (Nat \ {0}) : view.anchors \in [S -> LiveNodes]
  BY DEF BatchRecords, Anchors
<1>2. PICK T : T = S \ {n.a : n \in R}
  OBVIOUS
<1>3. PICK x : x = [a \in T |-> view.anchors[a]]
  OBVIOUS
<1>4. x \in Anchors
  <2>1. x \in [T -> LiveNodes] /\ T \in SUBSET (Nat \ {0})
    BY <1>1, <1>2, <1>3
  <2> QED BY <2>1 DEF Anchors
<1>5. PICK i : i = IF view.insert \in R THEN None ELSE view.insert
  OBVIOUS
<1>6. i \in Positions
  BY <1>5 DEF BatchRecords, Positions
<1>7. PICK v : v = [view EXCEPT !.anchors = x, !.insert = i]
  OBVIOUS
<1>8. v \in BatchRecords /\ v.insert = i /\ v.status = view.status
  BY <1>4, <1>6, <1>7 DEF BatchRecords
<1>9. v = Forgets(view, f, R)
  BY <1>1, <1>2, <1>3, <1>5, <1>7 DEF Forgets
<1>10. BatchSound(f, v)
  <2>1. CASE i = None
    BY <1>8, <2>1, InsertsAt
  <2>2. CASE i = view.insert
    BY <1>8, <2>2 DEF BatchSound
  <2> QED BY <1>5, <2>1, <2>2
<1> QED BY <1>8, <1>9, <1>10

\* Addresses a batch is told are gone, and the entry it sees then.
LEMMA GoneTyped ==
  ASSUME NEW v \in BatchRecords, NEW A \in SUBSET (Nat \ {0}), NEW e \in Positions
  PROVE  LET w == [v EXCEPT !.gone = @ \cup A, !.entry = e]
         IN  w \in BatchRecords /\ w.insert = v.insert /\ w.status = v.status
<1>1. PICK G : G = v.gone \cup A
  OBVIOUS
<1>2. G \in SUBSET (Nat \ {0})
  BY <1>1 DEF BatchRecords
<1>3. PICK w : w = [v EXCEPT !.gone = G, !.entry = e]
  OBVIOUS
<1>4. w \in BatchRecords /\ w.insert = v.insert /\ w.status = v.status
  BY <1>2, <1>3 DEF BatchRecords
<1> QED BY <1>1, <1>3, <1>4

\* A call that changes body and batch, the batch soundly for the body before.
LEMMA ViewKeeps ==
  ASSUME EditingInv, NEW b \in Batches, NEW r, Sound(fn, r), NEW v \in BatchRecords, BatchSound(fn, v),
         v.status = batch[b].status, Publish(b, r, v)
  PROVE  Keeps(b)
<1>1. Good(fn) /\ Evolves(fn, r.f) /\ r.ok \in BOOLEAN /\ (~r.ok => Written(r.f) = Written(fn)) /\ v.insert \in Positions
  BY BatchTyped DEF Sound, BatchRecords
<1>2. BatchSound(r.f, v)
  BY <1>1, BatchAfter
<1> QED BY <1>1, <1>2, PublishKeeps DEF SoundOrLoad

\* EraseInstruction: the batch notes the address.
LEMMA EraseKeeps ==
  ASSUME EditingInv, NEW b \in Batches, EraseInstruction(b)
  PROVE  Keeps(b)
<1>1. PICK h \in InstructionArgs(b) :
         IF Owned(b, h) THEN Publish(b, Erase(fn, h.node), [batch[b] EXCEPT !.gone = @ \cup {h.node.a}])
         ELSE Apply(b, Refused(fn))
  BY DEF EraseInstruction
<1>2. CASE ~Owned(b, h)
  BY <1>1, <1>2, RefusedKeeps
<1>3. CASE Owned(b, h)
  <2>1. batch[b] \in BatchRecords /\ BatchSound(fn, batch[b]) /\ Good(fn)
    BY BatchTyped
  <2>2. h.node \in LiveNodes /\ h.node \in OfBody("ins", fn)
    BY <1>3, InstructionArgument
  <2>3. PICK v : v = [batch[b] EXCEPT !.gone = @ \cup {h.node.a}]
    OBVIOUS
  <2>4. PICK G : G = batch[b].gone \cup {h.node.a}
    OBVIOUS
  <2>5. G \in SUBSET (Nat \ {0})
    <3>1. h.node.a \in Nat \ {0}
      BY <2>2 DEF LiveNodes
    <3> QED BY <2>1, <2>4, <3>1 DEF BatchRecords
  <2>6. v = [batch[b] EXCEPT !.gone = G]
    BY <2>3, <2>4
  <2>7. v \in BatchRecords /\ v.insert = batch[b].insert /\ v.status = batch[b].status
    BY <2>1, <2>5, <2>6 DEF BatchRecords
  <2>8. BatchSound(fn, v)
    BY <2>1, <2>7 DEF BatchSound
  <2>9. PICK r : r = Erase(fn, h.node)
    OBVIOUS
  <2>10. Sound(fn, r)
    BY <2>1, <2>2, <2>9, EraseSound
  <2>11. Publish(b, r, v)
    BY <1>1, <1>3, <2>3, <2>9
  <2> QED BY <2>7, <2>8, <2>10, <2>11, ViewKeeps
<1> QED BY <1>2, <1>3

\* Merge: the batch forgets the block that went.
LEMMA MergeKeeps ==
  ASSUME EditingInv, NEW b \in Batches, Merge(b)
  PROVE  Keeps(b)
<1>1. PICK h \in BlockArgs(b) :
         LET r == IF Owned(b, h) THEN MergeFallthrough(fn, BlockNumber(h)) ELSE Refused(fn)
             next == IF r.ok THEN {fn.blocks[BlockNumber(h) + 1].n} ELSE {}
         IN  Publish(b, r, [Forgets(batch[b], fn, next) EXCEPT !.gone = @ \cup {n.a : n \in next}])
  BY DEF Merge
<1>2. batch[b] \in BatchRecords /\ BatchSound(fn, batch[b]) /\ Good(fn)
  BY BatchTyped
<1>3. PICK r : r = IF Owned(b, h) THEN MergeFallthrough(fn, BlockNumber(h)) ELSE Refused(fn)
  OBVIOUS
<1>4. Sound(fn, r) /\ (r.ok => BlockNumber(h) + 1 \in DOMAIN fn.blocks)
  <2>1. CASE Owned(b, h)
    <3>1. PICK c \in DOMAIN fn.blocks : c = BlockNumber(h)
      BY <2>1, BlockArgument
    <3> QED BY <1>2, <1>3, <2>1, <3>1, MergeSound
  <2>2. CASE ~Owned(b, h)
    <3>1. r = Refused(fn) /\ r.ok = FALSE
      BY <1>3, <2>2 DEF Refused
    <3> QED BY <1>2, <3>1, RefusedSound
  <2> QED BY <2>1, <2>2
<1>5. PICK next : next = IF r.ok THEN {fn.blocks[BlockNumber(h) + 1].n} ELSE {}
  OBVIOUS
<1>6. next \subseteq LiveNodes
  BY <1>2, <1>4, <1>5, GoodBlocks
<1>7. PICK v : v = Forgets(batch[b], fn, next)
  OBVIOUS
<1>8. v \in BatchRecords /\ BatchSound(fn, v) /\ v.status = batch[b].status
  BY <1>2, <1>7, ForgetsSound
<1>9. PICK A : A = {n.a : n \in next}
  OBVIOUS
<1>10. A \in SUBSET (Nat \ {0})
  BY <1>6, <1>9 DEF LiveNodes
<1>11. PICK G : G = v.gone \cup A
  OBVIOUS
<1>12. G \in SUBSET (Nat \ {0})
  BY <1>8, <1>10, <1>11 DEF BatchRecords
<1>13. PICK w : w = [v EXCEPT !.gone = G]
  OBVIOUS
<1>14. w \in BatchRecords /\ w.insert = v.insert /\ w.status = batch[b].status
  BY <1>8, <1>12, <1>13 DEF BatchRecords
<1>15. BatchSound(fn, w)
  BY <1>8, <1>14 DEF BatchSound
<1>16. Publish(b, r, w)
  BY <1>1, <1>3, <1>5, <1>7, <1>9, <1>11, <1>13
<1> QED BY <1>4, <1>14, <1>15, <1>16, ViewKeeps

\* DropBlocks: the batch forgets what went, and sees the first block that stayed.
LEMMA DropBlocksKeeps ==
  ASSUME EditingInv, NEW b \in Batches, DropBlocks(b)
  PROVE  Keeps(b)
<1>1. PICK h \in BlockArgs(b), k \in BlockArgs(b) :
         LET r == IF Owned(b, h) /\ Owned(b, k) THEN EraseBlocks(fn, {BlockNumber(h), BlockNumber(k)}) ELSE Refused(fn)
             nodes == IF r.ok THEN Nodes(fn) \ Nodes(r.f) ELSE {}
         IN  Publish(b, r, [Forgets(batch[b], fn, nodes) EXCEPT
                              !.gone = @ \cup {n.a : n \in nodes},
                              !.entry = IF r.ok /\ @ \in nodes THEN r.f.blocks[1].n ELSE @])
  BY DEF DropBlocks
<1>2. batch[b] \in BatchRecords /\ BatchSound(fn, batch[b]) /\ Good(fn)
  BY BatchTyped
<1>3. PICK r : r = IF Owned(b, h) /\ Owned(b, k) THEN EraseBlocks(fn, {BlockNumber(h), BlockNumber(k)}) ELSE Refused(fn)
  OBVIOUS
<1>4. Sound(fn, r) /\ (r.ok => r.f.blocks # <<>>)
  <2>1. CASE Owned(b, h) /\ Owned(b, k)
    <3>1. PICK bs : bs = {BlockNumber(h), BlockNumber(k)}
      OBVIOUS
    <3>2. bs \in SUBSET DOMAIN fn.blocks /\ bs # {}
      BY <2>1, <3>1, BlockArgument
    <3>3. r = EraseBlocks(fn, bs)
      BY <1>3, <2>1, <3>1
    <3> QED BY <1>2, <3>2, <3>3, EraseBlocksSound, EraseBlocksLeaves
  <2>2. CASE ~(Owned(b, h) /\ Owned(b, k))
    <3>1. r = Refused(fn) /\ r.ok = FALSE
      BY <1>3, <2>2 DEF Refused
    <3> QED BY <1>2, <3>1, RefusedSound
  <2> QED BY <2>1, <2>2
<1>5. PICK nodes : nodes = IF r.ok THEN Nodes(fn) \ Nodes(r.f) ELSE {}
  OBVIOUS
<1>6. nodes \subseteq LiveNodes
  BY <1>2, <1>5, NodesAreLive
<1>7. PICK v : v = Forgets(batch[b], fn, nodes)
  OBVIOUS
<1>8. v \in BatchRecords /\ BatchSound(fn, v) /\ v.status = batch[b].status
  BY <1>2, <1>7, ForgetsSound
<1>9. PICK A : A = {n.a : n \in nodes}
  OBVIOUS
<1>10. A \in SUBSET (Nat \ {0})
  BY <1>6, <1>9 DEF LiveNodes
<1>11. PICK e : e = IF r.ok /\ v.entry \in nodes THEN r.f.blocks[1].n ELSE v.entry
  OBVIOUS
<1>12. e \in Positions
  <2>1. v.entry \in Positions
    BY <1>8 DEF BatchRecords
  <2>2. r.ok => r.f.blocks[1].n \in LiveNodes
    <3>1. SUFFICES ASSUME r.ok
                   PROVE  r.f.blocks[1].n \in LiveNodes
      OBVIOUS
    <3>2. Good(r.f) /\ r.f.blocks # <<>>
      BY <1>4, <3>1, EvolvesGood DEF Sound
    <3>3. PICK g : g = r.f
      OBVIOUS
    <3>4. Good(g) /\ g.blocks # <<>> /\ g.blocks \in Seq(BodyBlocks)
      BY <3>2, <3>3, GoodBlocks
    <3>5. 1 \in DOMAIN g.blocks
      BY <3>4, GoodBlocks, EmptySeq
    <3> QED BY <3>3, <3>4, <3>5, GoodBlocks
  <2> QED BY <1>11, <2>1, <2>2 DEF Positions
<1>13. PICK w : w = [v EXCEPT !.gone = @ \cup A, !.entry = e]
  OBVIOUS
<1>14. w \in BatchRecords /\ w.insert = v.insert
  BY <1>8, <1>10, <1>12, <1>13, GoneTyped, ZenonT(30)
<1>17. w.status = batch[b].status
  BY <1>8, <1>13 DEF BatchRecords
<1>15. BatchSound(fn, w)
  BY <1>8, <1>14 DEF BatchSound
<1>16. Publish(b, r, w)
  <2>1. Publish(b, r, [v EXCEPT !.gone = @ \cup A, !.entry = IF r.ok /\ @ \in nodes THEN r.f.blocks[1].n ELSE @])
    BY <1>1, <1>3, <1>5, <1>7, <1>9
  <2>2. [v EXCEPT !.gone = @ \cup A, !.entry = IF r.ok /\ @ \in nodes THEN r.f.blocks[1].n ELSE @] = w
    BY <1>11, <1>13
  <2> QED BY <2>1, <2>2
<1> QED BY <1>4, <1>14, <1>15, <1>16, <1>17, ViewKeeps

\* DropLabels: the batch forgets the labels that went.
LEMMA DropLabelsKeeps ==
  ASSUME EditingInv, NEW b \in Batches, DropLabels(b)
  PROVE  Keeps(b)
<1>1. batch[b] \in BatchRecords /\ BatchSound(fn, batch[b]) /\ Good(fn)
  BY BatchTyped
<1>2. PICK r : r = EraseUnusedLabels(fn)
  OBVIOUS
<1>3. PICK gone : gone = batch[b].gone \cup {l.a : l \in Labels(fn) \ Labels(r.f)}
  OBVIOUS
<1>4. gone \in SUBSET (Nat \ {0})
  <2>1. Labels(fn) \subseteq LiveNodes
    <3>1. "label" \in Kinds
      BY DEF Kinds
    <3> QED BY <1>1, <3>1, LabelsOfBody, BodyNodes, KindsOfSeq, NodesAreLive
  <2>2. {l.a : l \in Labels(fn) \ Labels(r.f)} \subseteq Nat \ {0}
    BY <2>1 DEF LiveNodes
  <2> QED BY <1>1, <1>3, <2>2 DEF BatchRecords
<1>5. PICK kept : kept = {a \in DOMAIN batch[b].anchors : batch[b].anchors[a].a \notin gone}
  OBVIOUS
<1>6. PICK x : x = [a \in kept |-> batch[b].anchors[a]]
  OBVIOUS
<1>7. x \in Anchors
  <2>1. PICK S \in SUBSET (Nat \ {0}) : batch[b].anchors \in [S -> LiveNodes]
    BY <1>1 DEF BatchRecords, Anchors
  <2>2. x \in [kept -> LiveNodes] /\ kept \in SUBSET (Nat \ {0})
    BY <1>5, <1>6, <2>1
  <2> QED BY <2>2 DEF Anchors
<1>8. PICK v : v = [batch[b] EXCEPT !.gone = gone, !.anchors = x]
  OBVIOUS
<1>9. v \in BatchRecords /\ v.insert = batch[b].insert /\ v.status = batch[b].status
  BY <1>1, <1>4, <1>7, <1>8 DEF BatchRecords
<1>10. BatchSound(fn, v)
  BY <1>1, <1>9 DEF BatchSound
<1>11. Publish(b, r, v)
  BY <1>2, <1>3, <1>5, <1>6, <1>8 DEF DropLabels
<1>12. Sound(fn, r)
  BY <1>1, <1>2, UnusedSound
<1> QED BY <1>9, <1>10, <1>11, <1>12, ViewKeeps

\* All the calls of the client that rewrites.
LEMMA RewritingKeeps ==
  ASSUME EditingInv, NEW b \in Batches, Rewriting(b)
  PROVE  Keeps(b)
<1>1. Good(fn) /\ fn.regs \subseteq Registers
  BY BatchTyped DEF Good, Bodies
<1>2. ASSUME NEW h \in InstructionArgs(b), NEW r, Owned(b, h) => Sound(fn, r), Apply(b, IF Owned(b, h) THEN r ELSE Refused(fn))
      PROVE  Keeps(b)
  <2>1. CASE Owned(b, h)
    BY <1>2, <2>1, ApplyKeeps
  <2>2. CASE ~Owned(b, h)
    BY <1>2, <2>2, RefusedKeeps
  <2> QED BY <2>1, <2>2
<1>3. ASSUME NEW h \in BlockArgs(b), NEW r, Owned(b, h) => Sound(fn, r), Apply(b, IF Owned(b, h) THEN r ELSE Refused(fn))
      PROVE  Keeps(b)
  <2>1. CASE Owned(b, h)
    BY <1>3, <2>1, ApplyKeeps
  <2>2. CASE ~Owned(b, h)
    BY <1>3, <2>2, RefusedKeeps
  <2> QED BY <2>1, <2>2
<1>4. CASE Replace(b)
  <2>1. PICK h \in InstructionArgs(b), t \in Templates \cup {Insn("jmp", NoReg, NoReg, <<l>>) : l \in Labels(fn)} :
           Apply(b, IF Owned(b, h) THEN ReplaceOwned(fn, h.node, t) ELSE Refused(fn))
    BY <1>4 DEF Replace
  <2>2. t \in InsTemplates
    <3>1. CASE t \in Templates
      BY <3>1, TemplatesTyped
    <3>2. CASE t \in {Insn("jmp", NoReg, NoReg, <<l>>) : l \in Labels(fn)}
      <4>1. PICK l \in Labels(fn) : t = Insn("jmp", NoReg, NoReg, <<l>>)
        BY <3>2
      <4>2. l \in LiveNodes
        <5>1. "label" \in Kinds
          BY DEF Kinds
        <5> QED BY <1>1, <5>1, LabelsOfBody, BodyNodes, KindsOfSeq, NodesAreLive
      <4>3. PICK ls \in Seq(LiveNodes) : ls = <<l>>
        BY <4>2, ShortSequences
      <4>4. "jmp" \in Opcodes /\ NoReg \in Operands
        BY DEF Opcodes, Operands
      <4>5. Insn("jmp", NoReg, NoReg, ls) \in InsTemplates
        BY <4>4, InsnTyped
      <4> QED BY <4>1, <4>3, <4>5
    <3> QED BY <3>1, <3>2
  <2>3. PICK r : r = ReplaceOwned(fn, h.node, t)
    OBVIOUS
  <2>4. Owned(b, h) => Sound(fn, r)
    BY <1>1, <2>2, <2>3, InstructionArgument, ReplaceSound
  <2> QED BY <1>2, <2>1, <2>3, <2>4
<1>5. CASE Insert(b)
  <2>1. PICK h \in InstructionArgs(b), t \in Templates :
           Apply(b, IF Owned(b, h) THEN InsertBefore(fn, h.node, t) ELSE Refused(fn))
    BY <1>5 DEF Insert
  <2>2. PICK r : r = InsertBefore(fn, h.node, t)
    OBVIOUS
  <2>3. Owned(b, h) => Sound(fn, r)
    BY <1>1, <2>2, TemplatesTyped, InstructionArgument, InsertBeforeSound
  <2> QED BY <1>2, <2>1, <2>2, <2>3
<1>6. CASE Move(b)
  <2>1. PICK h \in InstructionArgs(b), to \in BlockArgs(b) :
           IF ~Owned(b, h) \/ to.batch # b THEN Apply(b, Refused(fn))
           ELSE IF to.node \notin Nodes(fn) THEN Astray
           ELSE \E before \in {None} \cup {i.n : i \in Range(fn.blocks[BlockNumber(to)].ins)} :
                  Apply(b, MoveBefore(fn, h.node, BlockNumber(to), before))
    BY <1>6 DEF Move
  <2>2. CASE ~Owned(b, h) \/ to.batch # b
    BY <2>1, <2>2, RefusedKeeps
  <2>3. CASE ~(~Owned(b, h) \/ to.batch # b) /\ to.node \notin Nodes(fn)
    BY <2>1, <2>3, AstrayKeeps
  <2>4. CASE ~(~Owned(b, h) \/ to.batch # b) /\ to.node \in Nodes(fn)
    <3>1. PICK c \in DOMAIN fn.blocks : c = BlockNumber(to)
      BY <2>4, BlockArgument
    <3>2. PICK before \in {None} \cup {i.n : i \in Range(fn.blocks[c].ins)} : Apply(b, MoveBefore(fn, h.node, c, before))
      BY <2>1, <2>4, <3>1
    <3>3. before \in {None} \cup InsNodes(fn.blocks[c].ins)
      BY DEF InsNodes
    <3>4. Sound(fn, MoveBefore(fn, h.node, c, before))
      BY <1>1, <2>4, <3>3, InstructionArgument, MoveBeforeSound
    <3> QED BY <3>2, <3>4, ApplyKeeps
  <2> QED BY <2>2, <2>3, <2>4
<1>7. CASE Split(b)
  <2>1. PICK h \in InstructionArgs(b) : Apply(b, IF Owned(b, h) THEN SplitBefore(fn, h.node) ELSE Refused(fn))
    BY <1>7 DEF Split
  <2>2. PICK r : r = SplitBefore(fn, h.node)
    OBVIOUS
  <2>3. Owned(b, h) => Sound(fn, r)
    BY <1>1, <2>2, InstructionArgument, SplitSound
  <2> QED BY <1>2, <2>1, <2>2, <2>3
<1>8. CASE MoveBlock(b)
  <2>1. PICK h \in BlockArgs(b), before \in 1 .. Len(fn.blocks) + 1 :
           Apply(b, IF Owned(b, h) THEN MoveBlockBefore(fn, BlockNumber(h), before) ELSE Refused(fn))
    BY <1>8 DEF MoveBlock
  <2>2. PICK r : r = MoveBlockBefore(fn, BlockNumber(h), before)
    OBVIOUS
  <2>3. Owned(b, h) => Sound(fn, r)
    BY <1>1, <2>2, BlockArgument, MoveBlockSound
  <2> QED BY <1>3, <2>1, <2>2, <2>3
<1>9. CASE Separate(b)
  <2>1. PICK h \in BlockArgs(b) : Apply(b, IF Owned(b, h) THEN SeparateLabels(fn, BlockNumber(h)) ELSE Refused(fn))
    BY <1>9 DEF Separate
  <2>2. PICK r : r = SeparateLabels(fn, BlockNumber(h))
    OBVIOUS
  <2>3. Owned(b, h) => Sound(fn, r)
    BY <1>1, <2>2, BlockArgument, SeparateSound
  <2> QED BY <1>3, <2>1, <2>2, <2>3
<1>10. CASE SetScope(b)
  <2>1. PICK h \in BlockArgs(b), scope \in {0, 1} :
           Apply(b, IF Owned(b, h) THEN SetStackScope(fn, BlockNumber(h), scope) ELSE Refused(fn))
    BY <1>10 DEF SetScope
  <2>2. PICK r : r = SetStackScope(fn, BlockNumber(h), scope)
    OBVIOUS
  <2>3. Owned(b, h) => Sound(fn, r)
    BY <1>1, <2>2, BlockArgument, ScopeSound
  <2> QED BY <1>3, <2>1, <2>2, <2>3
<1>11. CASE Rename(b)
  <2>1. PICK old \in fn.regs, new \in fn.regs : Apply(b, ReplaceUses(fn, old, new))
    BY <1>11 DEF Rename
  <2>2. Sound(fn, ReplaceUses(fn, old, new))
    BY <1>1, ReplaceUsesSound
  <2> QED BY <2>1, <2>2, ApplyKeeps
<1>12. CASE Materialize(b)
  <2>1. PICK x \in fn.regs : Apply(b, MaterializeStorage(fn, {x}))
    BY <1>12 DEF Materialize
  <2>2. Sound(fn, MaterializeStorage(fn, {x}))
    BY <1>1, MaterializeSound
  <2> QED BY <2>1, <2>2, ApplyKeeps
<1> QED BY <1>4, <1>5, <1>6, <1>7, <1>8, <1>9, <1>10, <1>11, <1>12, EraseKeeps, MergeKeeps, DropBlocksKeeps, DropLabelsKeeps
        DEF Rewriting

-----------------------------------------------------------------------------
\* A batch nobody opened, or that is over.
LEMMA ClosedTyped ==
  ASSUME NEW s \in {"none", "open", "closed"}, NEW e \in BOOLEAN
  PROVE  LET v == [Closed EXCEPT !.status = s, !.error = e]
         IN  v \in BatchRecords /\ v.insert = None /\ v.status = s /\ v.error = e
<1>1. PICK x : x = <<>>
  OBVIOUS
<1>2. x \in Anchors
  <2>1. x \in [{} -> LiveNodes]
    BY <1>1
  <2> QED BY <2>1 DEF Anchors
<1>3. PICK c : c = Closed
  OBVIOUS
<1>4. c = [status |-> "closed", error |-> FALSE, borrowed |-> FALSE, entry |-> None, insert |-> None,
           scope |-> 0, anchors |-> x, gone |-> {}]
  BY <1>1, <1>3, Zenon DEF Closed
<1>5. PICK v : v = [c EXCEPT !.status = s, !.error = e]
  OBVIOUS
<1>6. v \in BatchRecords /\ v.insert = None /\ v.status = s /\ v.error = e
  BY <1>2, <1>4, <1>5 DEF BatchRecords, Positions
<1> QED BY <1>3, <1>5, <1>6

\* What a batch sees of a body with a block.
LEMMA ViewingSound ==
  ASSUME NEW f, Good(f), f.blocks # <<>>, NEW view \in BatchRecords
  PROVE  LET v == Viewing(view, f)
         IN  v \in BatchRecords /\ BatchSound(f, v) /\ v.status = view.status /\ v.error = view.error
<1>1. 1 \in DOMAIN f.blocks
  BY GoodBlocks, EmptySeq
<1>2. f.blocks[1] \in BodyBlocks
  BY <1>1, GoodBlocks
<1>3. PICK x \in LiveNodes : x = f.blocks[1].n
  BY <1>2 DEF BodyBlocks
<1>4. PICK scope \in {0, 1} : scope = f.blocks[1].scope
  BY <1>2 DEF BodyBlocks
<1>5. PICK v : v = [view EXCEPT !.borrowed = TRUE, !.entry = x, !.insert = x, !.scope = scope]
  OBVIOUS
<1>6. v \in BatchRecords /\ v.insert = x /\ v.status = view.status /\ v.error = view.error
  BY <1>5 DEF BatchRecords, Positions
<1>7. v = Viewing(view, f)
  BY <1>3, <1>4, <1>5 DEF Viewing
<1>8. x \in OfBody("block", f)
  BY <1>1, <1>3 DEF OfBody, OfKind
<1>9. BatchSound(f, v)
  BY <1>6, <1>8, InsertsAt
<1> QED BY <1>6, <1>7, <1>9

\* The entry block is made when there is none.
LEMMA EnteredGrows ==
  ASSUME NEW f, Good(f)
  PROVE  Grows(f, Entered(f)) /\ Entered(f).blocks # <<>>
<1>1. CASE f.blocks = <<>>
  <2>1. PICK g : g = CreateBlock(f, 1, 0)
    OBVIOUS
  <2>2. Len(f.blocks) = 0
    BY <1>1
  <2>3. 1 \in 1..(Len(f.blocks) + 1)
    BY <2>2
  <2>4. Grows(f, g) /\ InsertedAs(g.blocks, f.blocks, 1, Block(NewNode(f), 0))
    BY <2>1, <2>3, CreateBlockGrows
  <2>5. Len(g.blocks) = 1
    BY <2>2, <2>4 DEF InsertedAs
  <2>6. g.blocks # <<>>
    BY <2>5
  <2> QED BY <1>1, <2>1, <2>4, <2>6 DEF Entered
<1>2. CASE f.blocks # <<>>
  BY <1>2, GrowsSame DEF Entered
<1> QED BY <1>1, <1>2

\* A handle somebody keeps from now on.
LEMMA HoldKeeps ==
  ASSUME EditingInv, NEW b \in Batches, Hold(b)
  PROVE  EditingInv'
<1>1. PICK h \in BlockArgs(b) \cup LabelArgs(b) \cup InstructionArgs(b) : handles' = handles \cup {h}
  BY DEF Hold
<1>2. Good(fn) /\ LogSound(fn) /\ batch \in [Batches -> BatchRecords] /\ (\A c \in Batches : BatchSound(fn, batch[c]))
      /\ \A k \in handles : HandleSound(fn, k)
  BY DEF EditingInv
<1>3. PICK g : g = [fn EXCEPT !.tracks = TRUE]
  OBVIOUS
<1>4. fn' = g /\ batch' = batch
  BY <1>3 DEF Hold
<1>5. /\ g \in Bodies(Logs) /\ g.blocks = fn.blocks /\ g.gen = fn.gen /\ g.rev.i = fn.rev.i /\ g.erased = fn.erased
      /\ g.tracks = TRUE
  BY <1>2, <1>3 DEF Good, Bodies
<1>6. Nodes(g) = Nodes(fn) /\ \A k : OfBody(k, g) = OfBody(k, fn)
  BY <1>5 DEF Nodes, OfBody
<1>7. Clean(g)
  BY <1>2, <1>5, <1>6, CleanParts DEF Good
<1>8. LogSound(g)
  BY <1>2, <1>5, <1>6 DEF LogSound
<1>9. \A c \in Batches : BatchSound(g, batch[c])
  BY <1>2, <1>5, <1>6 DEF BatchSound
<1>10. \A k : HandleSound(fn, k) => HandleSound(g, k)
  BY <1>5, <1>6 DEF HandleSound, WasErased
<1>11. HandleSound(fn, h)
  BY ArgumentSound
<1>12. \A k \in handles' : HandleSound(g, k)
  BY <1>1, <1>2, <1>10, <1>11
<1> QED BY <1>2, <1>4, <1>5, <1>7, <1>8, <1>9, <1>12 DEF EditingInv, Good

-----------------------------------------------------------------------------
\* The first body is good and nobody holds a handle.
LEMMA EditingStarts ==
  ASSUME Init
  PROVE  EditingInv
<1>1. PICK s \in Starts, maker \in Batches :
         fn = s.f
         /\ batch = [b \in Batches |-> [Closed EXCEPT !.status = IF s.making /\ b = maker THEN "open" ELSE "none"]]
  BY DEF Init
<1>2. fn \in Bodies({<<>>}) /\ Clean(fn)
  BY <1>1, StartAssumption
<1>3. PICK e : e = <<>>
  OBVIOUS
<1>4. e \in Logs /\ DOMAIN e = {} /\ fn.erased = e
  <2>1. e \in [{} -> Nat]
    BY <1>3
  <2> QED BY <1>2, <1>3, <2>1 DEF Logs, Bodies
<1>5. Good(fn)
  BY <1>2, <1>4 DEF Good, Bodies
<1>6. LogSound(fn)
  BY <1>4 DEF LogSound
<1>7. ASSUME NEW b \in Batches
      PROVE  batch[b] \in BatchRecords /\ batch[b].insert = None
  <2>1. PICK t \in {"none", "open", "closed"} : t = IF s.making /\ b = maker THEN "open" ELSE "none"
    OBVIOUS
  <2>2. PICK error \in BOOLEAN : error = FALSE
    OBVIOUS
  <2>3. PICK c : c = Closed
    OBVIOUS
  <2>4. c.error = error /\ DOMAIN c = {"status", "error", "borrowed", "entry", "insert", "scope", "anchors", "gone"}
    BY <2>2, <2>3 DEF Closed
  <2>5. [c EXCEPT !.status = t] = [c EXCEPT !.status = t, !.error = error]
    BY <2>4
  <2>6. batch[b] = [Closed EXCEPT !.status = t, !.error = error]
    BY <1>1, <2>1, <2>3, <2>5
  <2>7. PICK v : v = [Closed EXCEPT !.status = t, !.error = error]
    OBVIOUS
  <2>8. v \in BatchRecords /\ v.insert = None
    BY <2>7, ClosedTyped
  <2> QED BY <2>6, <2>7, <2>8
<1>8. batch \in [Batches -> BatchRecords]
  BY <1>1, <1>7
<1>9. \A b \in Batches : BatchSound(fn, batch[b])
  BY <1>5, <1>7, InsertsAt
<1>10. handles = {}
  BY DEF Init
<1> QED BY <1>5, <1>6, <1>8, <1>9, <1>10 DEF EditingInv

-----------------------------------------------------------------------------
\* A step that keeps the invariants and writes nothing when it fails.
Right ==
  /\ EditingInv' /\ ErrorInv'
  /\ editError' => Written(fn') = Written(fn) \/ (~editError /\ LoadLeft(fn, fn'))

\* A step that changes nothing of body, batches and errors.
LEMMA QuietRight ==
  ASSUME EditingInv, ErrorInv, fn' = fn, batch' = batch, handles' = handles, editError' = editError, pass' = pass
  PROVE  Right
<1>1. EditingInv'
  BY SameKeeps
<1>2. StatusMeansVerified'
  BY DEF ErrorInv, StatusMeansVerified, StatusOk, Pending
<1>3. ErrorInv'
  BY <1>2 DEF ErrorInv
<1> QED BY <1>1, <1>3 DEF Right

\* A call of a batch that is ready.
LEMMA CallRight ==
  ASSUME EditingInv, ErrorInv, NEW b \in Batches, Ready(b), Keeps(b)
  PROVE  Right
<1>1. EditingInv' /\ Effect(b)
  BY DEF Keeps
<1>2. CASE editError' = editError /\ batch' = batch /\ fn' = fn
  <2>1. StatusMeansVerified'
    BY <1>2 DEF ErrorInv, StatusMeansVerified, StatusOk, Pending
  <2>2. ErrorInv'
    BY <1>1, <1>2, <2>1 DEF ErrorInv, Effect
  <2> QED BY <1>1, <1>2, <2>2 DEF Right
<1>3. CASE /\ batch'[b].status = batch[b].status /\ batch'[b].error = editError'
           /\ \A c \in Batches : c # b => batch'[c] = batch[c]
           /\ editError' \in BOOLEAN
           /\ editError' => Written(fn') = Written(fn) \/ LoadLeft(fn, fn')
  <2>1. batch[b].status = "open" /\ ~editError
    BY DEF Ready
  <2>2. ASSUME NEW c \in Batches, batch'[c].status = "open" /\ batch'[c].error
        PROVE  editError'
    <3>1. CASE c = b
      BY <1>3, <2>2, <3>1
    <3>2. CASE c # b
      <4>1. batch[c].status = "open" /\ batch[c].error
        BY <1>3, <2>2, <3>2
      <4> QED BY <2>1, <4>1 DEF ErrorInv
    <3> QED BY <3>1, <3>2
  <2>3. b \in Pending'
    BY <1>3, <2>1 DEF Pending
  <2>4. StatusMeansVerified'
    BY <2>3 DEF StatusMeansVerified, StatusOk
  <2>5. pass' = pass
    BY <1>1 DEF Effect
  <2>6. ErrorInv'
    BY <1>3, <2>2, <2>4, <2>5 DEF ErrorInv
  <2> QED BY <1>1, <1>3, <2>1, <2>6 DEF Right
<1> QED BY <1>1, <1>2, <1>3 DEF Effect

\* A step that opens, closes or spoils a batch.
LEMMA BatchRight ==
  ASSUME EditingInv, ErrorInv, NEW b \in Batches, NEW v \in BatchRecords, BatchSound(fn, v),
         batch' = [batch EXCEPT ![b] = v], fn' = fn, handles' \subseteq handles,
         editError' \in BOOLEAN, pass' \in Batches \cup {"none"}, editError => editError',
         v.status = "open" /\ v.error => editError',
         editError' \/ v.status = "open" \/ batch[b].status # "open" \/ Verified(fn)
  PROVE  Right
<1>1. EditingInv'
  <2>1. Evolves(fn, fn') /\ BatchSound(fn', v)
    BY BatchTyped, GrowsSame DEF Evolves
  <2> QED BY <2>1, StepKeeps
<1>2. DOMAIN batch = Batches
  BY DEF EditingInv
<1>3. batch'[b] = v /\ \A c \in Batches : c # b => batch'[c] = batch[c]
  BY <1>2
<1>4. ASSUME NEW c \in Batches, batch'[c].status = "open" /\ batch'[c].error
      PROVE  editError'
  <2>1. CASE c = b
    BY <1>3, <1>4, <2>1
  <2>2. CASE c # b
    BY <1>3, <1>4, <2>2 DEF ErrorInv
  <2> QED BY <2>1, <2>2
<1>5. StatusMeansVerified'
  <2>1. SUFFICES ASSUME StatusOk'
                 PROVE  Verified(fn)
    BY DEF StatusMeansVerified
  <2>2. ~editError' /\ ~editError /\ \A c \in Batches : batch'[c].status # "open"
    BY <2>1 DEF StatusOk, Pending
  <2>3. v.status # "open"
    BY <1>3, <2>2
  <2>4. CASE batch[b].status # "open"
    <3>1. Pending = {}
      BY <1>3, <2>2, <2>4 DEF Pending
    <3> QED BY <2>2, <3>1 DEF ErrorInv, StatusMeansVerified, StatusOk
  <2> QED BY <2>2, <2>3, <2>4
<1>6. ErrorInv'
  BY <1>4, <1>5 DEF ErrorInv
<1> QED BY <1>1, <1>6 DEF Right

\* A closed batch, its error the one of the program.
LEMMA ClosingRight ==
  ASSUME EditingInv, ErrorInv, NEW b \in Batches, NEW s \in {"none", "closed"}, NEW e \in BOOLEAN,
         batch' = [batch EXCEPT ![b] = [Closed EXCEPT !.status = s, !.error = e]], fn' = fn, handles' \subseteq handles,
         editError' \in BOOLEAN, pass' \in Batches \cup {"none"}, editError => editError',
         editError' \/ Verified(fn)
  PROVE  Right
<1>1. PICK v : v = [Closed EXCEPT !.status = s, !.error = e]
  OBVIOUS
<1>2. v \in BatchRecords /\ v.insert = None /\ v.status = s
  BY <1>1, ClosedTyped
<1>3. BatchSound(fn, v)
  BY <1>2, BatchTyped, InsertsAt
<1>4. v.status # "open"
  BY <1>2
<1> QED BY <1>1, <1>2, <1>3, <1>4, BatchRight

\* Finishing fails or not.
LEMMA FinishDecided ==
  ASSUME NEW b \in Batches
  PROVE  FinishFails(b) \in BOOLEAN
<1>1. CASE FinishFails(b)
  <2>1. TRUE \in BOOLEAN /\ TRUE = FinishFails(b)
    BY <1>1, Zenon DEF FinishFails
  <2> QED BY <2>1, Zenon
<1>2. CASE ~FinishFails(b)
  <2>1. FALSE \in BOOLEAN /\ FALSE = FinishFails(b)
    BY <1>2, Zenon DEF FinishFails
  <2> QED BY <2>1, Zenon
<1> QED BY <1>1, <1>2

\* A batch that is finished, by its client or at the end of its pass.
LEMMA FinishingRight ==
  ASSUME EditingInv, ErrorInv, NEW b \in Batches,
         batch' = [batch EXCEPT ![b] = [Closed EXCEPT !.error = FinishFails(b)]],
         editError' = (editError \/ FinishFails(b)), fn' = fn, handles' = handles, pass' \in Batches \cup {"none"}
  PROVE  Right
<1>1. PICK e \in BOOLEAN : e = FinishFails(b)
  BY FinishDecided
<1>2. PICK s \in {"none", "closed"} : s = "closed"
  OBVIOUS
<1>3. PICK c : c = Closed
  OBVIOUS
<1>4. c.status = s /\ DOMAIN c = {"status", "error", "borrowed", "entry", "insert", "scope", "anchors", "gone"}
  BY <1>2, <1>3 DEF Closed
<1>5. [c EXCEPT !.error = e] = [c EXCEPT !.status = s, !.error = e]
  BY <1>4
<1>6. batch' = [batch EXCEPT ![b] = [Closed EXCEPT !.status = s, !.error = e]]
  BY <1>1, <1>3, <1>5
<1>7. editError \in BOOLEAN
  BY DEF ErrorInv
<1>8. editError' = (editError \/ e)
  BY <1>1
<1>9. editError' \in BOOLEAN /\ (editError => editError') /\ (e => editError')
  <2>1. CASE editError = TRUE
    BY <1>8, <2>1
  <2>2. CASE editError = FALSE /\ e = TRUE
    BY <1>8, <2>2
  <2>3. CASE editError = FALSE /\ e = FALSE
    BY <1>8, <2>3
  <2> QED BY <1>7, <2>1, <2>2, <2>3
<1>10. ~e => Verified(fn)
  BY <1>1 DEF FinishFails
<1>11. handles' \subseteq handles /\ (editError' \/ Verified(fn))
  BY <1>9, <1>10
<1> QED BY <1>6, <1>9, <1>11, ClosingRight

\* A batch that is opened.
LEMMA OpenBatchRight ==
  ASSUME EditingInv, ErrorInv, NEW b \in Batches, OpenBatch(b)
  PROVE  Right
<1>1. PICK e \in BOOLEAN : e = editError
  BY DEF ErrorInv
<1>2. PICK s \in {"none", "open", "closed"} : s = "open"
  OBVIOUS
<1>3. PICK v : v = [Closed EXCEPT !.status = s, !.error = e]
  OBVIOUS
<1>4. v \in BatchRecords /\ v.insert = None /\ v.status = "open" /\ v.error = e
  BY <1>2, <1>3, ClosedTyped
<1>5. BatchSound(fn, v)
  BY <1>4, BatchTyped, InsertsAt
<1>6. /\ batch' = [batch EXCEPT ![b] = v] /\ fn' = fn /\ handles' \subseteq handles
      /\ editError' = e /\ pass' \in Batches \cup {"none"}
  BY <1>1, <1>2, <1>3 DEF OpenBatch, ErrorInv
<1>7. editError' \in BOOLEAN /\ (editError => editError') /\ (v.status = "open" /\ v.error => editError')
  BY <1>1, <1>4, <1>6
<1> QED BY <1>4, <1>5, <1>6, <1>7, BatchRight

\* The view a batch gets of a body.
LEMMA BorrowRight ==
  ASSUME EditingInv, ErrorInv, NEW b \in Batches, BorrowFunction(b)
  PROVE  Right
<1>1. PICK g : g = Entered(fn)
  OBVIOUS
<1>2. PICK w \in BatchRecords : w = batch[b]
  BY BatchTyped
<1>3. Good(fn) /\ Grows(fn, g) /\ g.blocks # <<>>
  BY <1>1, BatchTyped, EnteredGrows
<1>4. PICK v : v = Viewing(w, g)
  OBVIOUS
<1>5. Good(g)
  BY <1>3 DEF Grows
<1>6. v \in BatchRecords /\ BatchSound(g, v) /\ v.status = w.status /\ v.error = w.error
  BY <1>3, <1>4, <1>5, ViewingSound
<1>7. DOMAIN batch = Batches
  BY DEF EditingInv
<1>8. /\ batch' = [batch EXCEPT ![b] = v] /\ fn' = g /\ handles' = handles /\ editError' = editError
      /\ pass' = pass /\ ~editError /\ batch[b].status = "open" /\ ~batch[b].error
  BY <1>1, <1>2, <1>4 DEF BorrowFunction, Ready
<1>9. EditingInv'
  <2>1. Evolves(fn, fn') /\ BatchSound(fn', v) /\ handles' \subseteq handles
    BY <1>3, <1>6, <1>8 DEF Evolves
  <2> QED BY <1>6, <1>8, <2>1, StepKeeps
<1>10. batch'[b] = v /\ \A c \in Batches : c # b => batch'[c] = batch[c]
  BY <1>7, <1>8
<1>11. ASSUME NEW c \in Batches, batch'[c].status = "open" /\ batch'[c].error
       PROVE  editError'
  <2>1. CASE c = b
    BY <1>2, <1>6, <1>8, <1>10, <1>11, <2>1
  <2>2. CASE c # b
    BY <1>8, <1>10, <1>11, <2>2 DEF ErrorInv
  <2> QED BY <2>1, <2>2
<1>12. b \in Pending'
  BY <1>2, <1>6, <1>8, <1>10 DEF Pending
<1>13. StatusMeansVerified'
  BY <1>12 DEF StatusMeansVerified, StatusOk
<1>14. ErrorInv'
  BY <1>8, <1>11, <1>13 DEF ErrorInv
<1> QED BY <1>8, <1>9, <1>14 DEF Right

\* A call on a batch that is not ready.
LEMMA LateCallRight ==
  ASSUME EditingInv, ErrorInv, NEW b \in Batches, LateCall(b)
  PROVE  Right
<1>1. batch[b] \in BatchRecords /\ BatchSound(fn, batch[b])
  BY BatchTyped
<1>2. PICK v : v = [batch[b] EXCEPT !.error = TRUE]
  OBVIOUS
<1>3. v \in BatchRecords /\ v.insert = batch[b].insert /\ v.status = batch[b].status
  BY <1>1, <1>2 DEF BatchRecords
<1>4. BatchSound(fn, v)
  BY <1>1, <1>3 DEF BatchSound
<1>5. batch' = [batch EXCEPT ![b] = v] /\ fn' = fn /\ handles' \subseteq handles /\ pass' \in Batches \cup {"none"}
  BY <1>2 DEF LateCall, ErrorInv
<1>6. PICK e \in BOOLEAN : e = batch[b].error
  BY <1>1 DEF BatchRecords
<1>7. editError \in BOOLEAN
  BY DEF ErrorInv
<1>8. editError' = (editError \/ (batch[b].status = "closed" /\ ~e))
  BY <1>6 DEF LateCall
<1>9. editError' \in BOOLEAN /\ (editError => editError')
  <2>1. CASE editError = TRUE
    BY <1>8, <2>1
  <2>2. CASE editError = FALSE /\ batch[b].status = "closed" /\ e = FALSE
    BY <1>8, <2>2
  <2>3. CASE editError = FALSE /\ ~(batch[b].status = "closed" /\ e = FALSE)
    <3>1. ~(editError \/ (batch[b].status = "closed" /\ ~e))
      BY <2>3
    <3>2. FALSE = (editError \/ (batch[b].status = "closed" /\ ~e))
      BY <3>1, Zenon
    <3>3. editError' = FALSE
      BY <1>8, <3>2, Zenon
    <3> QED BY <2>3, <3>3
  <2> QED BY <1>7, <2>1, <2>2, <2>3
<1>10. v.status = "open" /\ v.error => editError'
  <2>1. SUFFICES ASSUME batch[b].status = "open"
                 PROVE  editError'
    BY <1>3
  <2>2. editError \/ e
    BY <1>6, <2>1 DEF LateCall, Ready
  <2>3. editError
    BY <1>6, <2>1, <2>2 DEF ErrorInv
  <2> QED BY <1>9, <2>3
<1> QED BY <1>3, <1>4, <1>5, <1>9, <1>10, BatchRight

\* A batch that is dropped.
LEMMA DropRight ==
  ASSUME EditingInv, ErrorInv, NEW b \in Batches, Drop(b)
  PROVE  Right
<1>1. PICK e \in BOOLEAN : e = batch[b].error
  BY BatchTyped DEF BatchRecords
<1>2. editError \in BOOLEAN
  BY DEF ErrorInv
<1>3. editError' = (editError \/ ~e) /\ (e => editError)
  BY <1>1 DEF Drop, ErrorInv
<1>4. editError' = TRUE
  <2>1. TRUE = (editError \/ ~e)
    BY <1>2, <1>3
  <2> QED BY <1>3, <2>1
<1>5. PICK s \in {"none", "closed"} : s = "none"
  OBVIOUS
<1>6. PICK x \in BOOLEAN : x = FALSE
  OBVIOUS
<1>7. PICK c : c = Closed
  OBVIOUS
<1>8. c.error = x /\ DOMAIN c = {"status", "error", "borrowed", "entry", "insert", "scope", "anchors", "gone"}
  BY <1>6, <1>7 DEF Closed
<1>9. [c EXCEPT !.status = s] = [c EXCEPT !.status = s, !.error = x]
  BY <1>8
<1>10. batch' = [batch EXCEPT ![b] = [Closed EXCEPT !.status = s, !.error = x]]
  BY <1>5, <1>7, <1>9 DEF Drop
<1>11. fn' = fn /\ handles' \subseteq handles /\ pass' \in Batches \cup {"none"}
  BY DEF Drop, ErrorInv
<1>12. editError' \in BOOLEAN /\ (editError => editError') /\ (editError' \/ Verified(fn))
  BY <1>4
<1> QED BY <1>10, <1>11, <1>12, ClosingRight

\* A handle somebody keeps leaves body and errors.
LEMMA HoldRight ==
  ASSUME EditingInv, ErrorInv, NEW b \in Batches, Hold(b)
  PROVE  Right
<1>1. EditingInv'
  BY HoldKeeps
<1>2. batch' = batch /\ editError' = editError /\ pass' = pass /\ batch[b].status = "open" /\ ~editError
  BY DEF Hold, Ready
<1>3. b \in Pending'
  BY <1>2 DEF Pending
<1>4. StatusMeansVerified'
  BY <1>3 DEF StatusMeansVerified, StatusOk
<1>5. ErrorInv'
  BY <1>2, <1>4 DEF ErrorInv
<1> QED BY <1>1, <1>2, <1>5 DEF Right

\* The batch of a pass.
LEMMA PassStartRight ==
  ASSUME EditingInv, ErrorInv, NEW b \in Batches, PassStart(b)
  PROVE  Right
<1>1. Good(fn)
  BY BatchTyped
<1>2. fn.blocks # <<>> /\ ~editError
  BY DEF PassStart, StatusOk, Verified
<1>3. PICK s \in {"none", "open", "closed"} : s = "open"
  OBVIOUS
<1>4. PICK x \in BOOLEAN : x = FALSE
  OBVIOUS
<1>5. PICK c : c = Closed
  OBVIOUS
<1>6. c.error = x /\ DOMAIN c = {"status", "error", "borrowed", "entry", "insert", "scope", "anchors", "gone"}
  BY <1>4, <1>5 DEF Closed
<1>7. [c EXCEPT !.status = s] = [c EXCEPT !.status = s, !.error = x]
  BY <1>6
<1>8. PICK w : w = [Closed EXCEPT !.status = s, !.error = x]
  OBVIOUS
<1>9. w \in BatchRecords /\ w.status = "open" /\ w.error = FALSE
  BY <1>3, <1>4, <1>8, ClosedTyped
<1>10. PICK v : v = Viewing(w, fn)
  OBVIOUS
<1>11. v \in BatchRecords /\ BatchSound(fn, v) /\ v.status = "open" /\ v.error = FALSE
  BY <1>1, <1>2, <1>9, <1>10, ViewingSound
<1>12. batch' = [batch EXCEPT ![b] = v]
  BY <1>3, <1>5, <1>7, <1>8, <1>10 DEF PassStart
<1>13. /\ fn' = fn /\ handles' \subseteq handles /\ pass' \in Batches \cup {"none"} /\ editError' = editError
       /\ editError' \in BOOLEAN
  BY DEF PassStart, ErrorInv
<1> QED BY <1>11, <1>12, <1>13, BatchRight

\* Every step keeps the invariants and writes nothing when it fails.
LEMMA EditingStep ==
  ASSUME EditingInv, ErrorInv, [Next]_vars
  PROVE  Right
<1>1. CASE UNCHANGED vars
  BY <1>1, QuietRight DEF vars
<1>2. ASSUME NEW b \in Batches, Building(b)
      PROVE  Right
  <2>1. Ready(b)
    BY <1>2 DEF Building, Unselected, Declare, WriteAtInsert, Local, NewBlock, NewLabel, PositionAt, Jump, Switch,
                BeginScope, EndScope, DefineData, Entry, Usable
  <2> QED BY <1>2, <2>1, BuildingKeeps, CallRight
<1>3. ASSUME NEW b \in Batches, Rewriting(b)
      PROVE  Right
  <2>1. Ready(b)
    BY <1>3 DEF Rewriting, Replace, EraseInstruction, Insert, Move, Split, Merge, MoveBlock, Separate, DropBlocks,
                DropLabels, SetScope, Rename, Materialize, Usable
  <2> QED BY <1>3, <2>1, RewritingKeeps, CallRight
<1>4. ASSUME NEW b \in Batches, Finish(b)
      PROVE  Right
  BY <1>4, FinishingRight DEF Finish, ErrorInv
<1>5. ASSUME NEW a \in Analyses, Get(a) \/ TakeCached(a)
      PROVE  Right
  <2>1. /\ fn' = fn /\ batch' = batch /\ handles' = handles /\ editError' = editError /\ pass' = pass
    BY <1>5 DEF Get, TakeCached
  <2> QED BY <2>1, QuietRight
<1>6. ASSUME NEW preserved, PassEnd(preserved)
      PROVE  Right
  <2>1. pass \in Batches /\ pass' \in Batches \cup {"none"}
    BY <1>6 DEF PassEnd, ErrorInv
  <2> QED BY <1>6, <2>1, FinishingRight DEF PassEnd
<1> QED BY <1>1, <1>2, <1>3, <1>4, <1>5, <1>6, OpenBatchRight, BorrowRight, LateCallRight, DropRight, HoldRight,
           PassStartRight DEF Next

\* The program starts without an error, with a body that verifies or a batch that makes it.
LEMMA ErrorsStart ==
  ASSUME Init
  PROVE  ErrorInv
<1>1. PICK s \in Starts, maker \in Batches :
         fn = s.f
         /\ batch = [b \in Batches |-> [Closed EXCEPT !.status = IF s.making /\ b = maker THEN "open" ELSE "none"]]
  BY DEF Init
<1>2. editError = FALSE /\ pass = "none"
  BY DEF Init
<1>3. \A b \in Batches : batch[b].error = FALSE /\ (batch[b].status = "open" <=> s.making /\ b = maker)
  BY <1>1 DEF Closed
<1>4. StatusMeansVerified
  <2>1. CASE s.making
    <3>1. maker \in Pending
      BY <1>3, <2>1 DEF Pending
    <3> QED BY <3>1 DEF StatusMeansVerified, StatusOk
  <2>2. CASE ~s.making
    BY <1>1, <2>2, StartAssumption DEF StatusMeansVerified
  <2> QED BY <2>1, <2>2
<1> QED BY <1>2, <1>3, <1>4 DEF ErrorInv

-----------------------------------------------------------------------------
\* Whatever batches do to a body, together or one after the other, its nodes are typed, in one place each and have
\* addresses of their own, the log of erased addresses is older than the nodes that have them now, a batch inserts
\* at a block or at nothing, and every handle says what happened to its node.
THEOREM EditingHolds == Spec => []EditingInv
<1>1. Init => EditingInv /\ ErrorInv
  BY EditingStarts, ErrorsStart
<1>2. EditingInv /\ ErrorInv /\ [Next]_vars => (EditingInv /\ ErrorInv)'
  BY EditingStep DEF Right
<1> QED BY <1>1, <1>2, PTL DEF Spec

\* A handle resolves exactly while its node is in the body (Function::erased).
THEOREM ResolvesExactly == Spec => []HandlesExact
<1>1. EditingInv => HandlesExact
  BY DEF EditingInv, HandleSound, HandlesExact, Resolves
<1> QED BY <1>1, EditingHolds, PTL

\* The program knows every error of an open batch, and without an error and
\* open batches its body verifies (Program::status).
THEOREM StatusHolds == Spec => []StatusMeansVerified
<1>1. Init => EditingInv /\ ErrorInv
  BY EditingStarts, ErrorsStart
<1>2. EditingInv /\ ErrorInv /\ [Next]_vars => (EditingInv /\ ErrorInv)'
  BY EditingStep DEF Right
<1>3. ErrorInv => StatusMeansVerified
  BY DEF ErrorInv
<1> QED BY <1>1, <1>2, <1>3, PTL DEF Spec

\* A step after which the program has an error wrote no instruction and no
\* register: every call checks before it publishes.  The one call that does
\* not is create_load_lane; all it leaves is its load, when it was the first
\* to fail and some register lives in memory.
THEOREM FailuresAreQuiet == Spec => FailureQuiet
<1>1. Init => EditingInv /\ ErrorInv
  BY EditingStarts, ErrorsStart
<1>2. EditingInv /\ ErrorInv /\ [Next]_vars => (EditingInv /\ ErrorInv)'
  BY EditingStep DEF Right
<1>3. EditingInv /\ ErrorInv /\ [Next]_vars
      => [editError' => Written(fn') = Written(fn) \/ (~editError /\ LoadLeft(fn, fn'))]_vars
  BY EditingStep DEF Right
<1> QED BY <1>1, <1>2, <1>3, PTL DEF Spec, FailureQuiet
=============================================================================
