-------------------------- MODULE InductionFacts --------------------------
(***************************************************************************)
(* Induction and recursive definition over an initial segment of the       *)
(* natural numbers, stated for sets and functions: what the loops and      *)
(* pointer chains of the models compute is proved with these two facts.    *)
(***************************************************************************)
EXTENDS Integers, FiniteSetTheorems, TLAPS

\* A set that holds 0 and is closed under successor below N holds 0..N.
LEMMA CountsUp ==
  ASSUME NEW N \in Nat, NEW S,
         0 \in S,
         \A n \in 0..(N - 1) : n \in S => n + 1 \in S
  PROVE  0..N \subseteq S
<1> DEFINE T == (0..N) \ S
           F == {0..n : n \in T}
           R == StrictSubsetOrdering(0..N)
<1> SUFFICES ASSUME T # {} PROVE FALSE
  OBVIOUS
<1>1. IsWellFoundedOn(R, SUBSET (0..N))
  <2>1. IsFiniteSet(0..N)
    BY FS_Interval
  <2>2. FiniteSubsetsOf(0..N) = SUBSET (0..N)
    BY <2>1, FS_FiniteSubsetsOfFinite
  <2> QED BY <2>2, FS_StrictSubsetOrderingWellFounded
<1>2. F \subseteq SUBSET (0..N) /\ F # {}
  OBVIOUS
<1>3. \E X \in F : \A Y \in F : ~(<<Y, X>> \in R)
  <2> HIDE DEF F, R
  <2> QED BY <1>1, <1>2, WFMin
<1>4. PICK x \in T : \A y \in T : ~(<<0..y, 0..x>> \in R)
  BY <1>3
<1>5. x \in Nat /\ x <= N /\ x # 0
  OBVIOUS
<1>6. x - 1 \in 0..(N - 1) /\ (x - 1) + 1 = x
  BY <1>5
<1>7. <<0..(x - 1), 0..x>> \in R
  <2>1. 0..(x - 1) \in SUBSET (0..N) /\ 0..x \in SUBSET (0..N)
    BY <1>5
  <2>2. x \in 0..x /\ x \notin 0..(x - 1)
    BY <1>5
  <2>3. 0..(x - 1) \subseteq 0..x /\ 0..(x - 1) # 0..x
    BY <2>2, <1>5
  <2> QED BY <2>1, <2>3 DEF StrictSubsetOrdering
<1>8. x - 1 \in S
  BY <1>4, <1>7, <1>6, <1>5
<1> QED BY <1>6, <1>8, <1>5

\* A recursion over 0..N: base at 0, and at n a function of n and of the value
\* at the earlier number before[n].
Recursion(N, S, base, before, step) ==
  /\ N \in Nat
  /\ base \in S
  /\ before \in [1..N -> Nat]
  /\ \A n \in 1..N : before[n] < n
  /\ step \in [(1..N) \X S -> S]

Solves(g, N, S, base, before, step) ==
  /\ g \in [0..N -> S]
  /\ g[0] = base
  /\ \A n \in 1..N : g[n] = step[<<n, g[before[n]]>>]

\* Every such recursion has a solution.
LEMMA RecursionExists ==
  ASSUME NEW N, NEW S, NEW base, NEW before, NEW step,
         Recursion(N, S, base, before, step)
  PROVE  \E g : Solves(g, N, S, base, before, step)
<1> USE DEF Recursion
<1> DEFINE Solved(m, g) == g[0] = base /\ \A n \in 1..m : g[n] = step[<<n, g[before[n]]>>]
           Good == {m \in 0..N : \E g \in [0..m -> S] : Solved(m, g)}
<1>1. 0 \in Good
  <2>1. [n \in 0..0 |-> base] \in [0..0 -> S] /\ Solved(0, [n \in 0..0 |-> base])
    OBVIOUS
  <2> HIDE DEF Solved
  <2>2. 0 \in 0..N
    OBVIOUS
  <2> QED BY <2>1, <2>2
<1>2. ASSUME NEW m \in 0..(N - 1), m \in Good
      PROVE  m + 1 \in Good
  <2>1. PICK g \in [0..m -> S] : Solved(m, g)
    BY <1>2
  <2> DEFINE h == [n \in 0..(m + 1) |-> IF n = m + 1 THEN step[<<m + 1, g[before[m + 1]]>>] ELSE g[n]]
  <2>2. m + 1 \in 1..N /\ before[m + 1] \in 0..m
    OBVIOUS
  <2>3. h \in [0..(m + 1) -> S]
    BY <2>2
  <2>4. \A n \in 0..m : h[n] = g[n]
    OBVIOUS
  <2>5. h[m + 1] = step[<<m + 1, g[before[m + 1]]>>]
    OBVIOUS
  <2> HIDE DEF h
  <2>6. Solved(m + 1, h)
    <3>1. h[0] = base
      BY <2>1, <2>4
    <3>2. ASSUME NEW n \in 1..(m + 1)
          PROVE  h[n] = step[<<n, h[before[n]]>>]
      <4>1. before[n] \in 0..m
        OBVIOUS
      <4>2. CASE n = m + 1
        BY <2>4, <2>5, <4>1, <4>2
      <4>3. CASE n \in 1..m
        BY <2>1, <2>4, <4>1, <4>3
      <4> QED BY <4>2, <4>3
    <3> QED BY <3>1, <3>2
  <2> HIDE DEF Solved
  <2>7. m + 1 \in 0..N
    OBVIOUS
  <2> QED BY <2>7, <2>3, <2>6
<1>3. N \in Good
  <2> HIDE DEF Good
  <2>1. 0..N \subseteq Good
    BY <1>1, <1>2, CountsUp
  <2> QED BY <2>1
<1> QED BY <1>3 DEF Solves
=============================================================================
