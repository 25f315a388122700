------------------------- MODULE CompressionProofs -------------------------
(***************************************************************************)
(* Proofs about Compression, for every size of a byte, a block and the     *)
(* table, all inputs and every damage to a stream: the decompressor stays  *)
(* inside its bounds, and reads back what the compressor has written.      *)
(***************************************************************************)
EXTENDS Compression, SequenceTheorems, FunctionTheorems, InductionFacts

\* A power of two is the number of subsets of a set.
LEMMA PowerOfTwo ==
  ASSUME NEW n \in Nat
  PROVE  2 ^ n \in Nat /\ 2 ^ n > 0
<1>1. IsFiniteSet(1..n) /\ Cardinality(1..n) = n
  <2>1. 1 \in Int /\ n \in Int
    OBVIOUS
  <2>2. IsFiniteSet(1..n) /\ Cardinality(1..n) = IF 1 > n THEN 0 ELSE n - 1 + 1
    BY <2>1, FS_Interval
  <2> QED BY <2>2
<1>2. IsFiniteSet(SUBSET (1..n)) /\ Cardinality(SUBSET (1..n)) = 2 ^ n
  BY <1>1, FS_SUBSET
<1>3. Cardinality(SUBSET (1..n)) \in Nat
  BY <1>2, FS_CardinalityType
<1>4. Cardinality(SUBSET (1..n)) # 0
  <2>1. SUBSET (1..n) # {}
    OBVIOUS
  <2> QED BY <2>1, <1>2, FS_EmptySet
<1>5. \A x \in Nat : x # 0 => x > 0
  OBVIOUS
<1> QED BY <1>2, <1>3, <1>4, <1>5

\* Every set of natural numbers that is not empty has a least element.
LEMMA LeastExists ==
  ASSUME NEW S \in SUBSET Nat, S # {}
  PROVE  Min(S) \in S /\ \A y \in S : Min(S) <= y
<1>1. \E x \in S : \A y \in S : x <= y
  <2> SUFFICES ASSUME \A x \in S : \E y \in S : ~(x <= y)
               PROVE  FALSE
    OBVIOUS
  <2>1. PICK z \in S : TRUE
    OBVIOUS
  <2> DEFINE T == {n \in Nat : \A y \in S : n <= y}
  <2>2. 0 \in T
    OBVIOUS
  <2>3. ASSUME NEW n \in 0..(z - 1), n \in T
        PROVE  n + 1 \in T
    <3>1. n \in Nat /\ n + 1 \in Nat /\ \A y \in S : n <= y
      BY <2>3
    <3>2. n \notin S
      BY <3>1
    <3>3. \A y \in S : y \in Nat /\ n + 1 <= y
      BY <3>1, <3>2
    <3> QED BY <3>1, <3>3
  <2>4. 0..z \subseteq T
    <3> HIDE DEF T
    <3> QED BY <2>2, <2>3, CountsUp
  <2> QED BY <2>4
<1> QED BY <1>1 DEF Min

\* So has every bounded one a greatest element.
LEMMA GreatestExists ==
  ASSUME NEW bound \in Nat, NEW S \in SUBSET (0..bound), S # {}
  PROVE  Max(S) \in S /\ \A y \in S : y <= Max(S)
<1> DEFINE T == {n \in Nat : \E x \in S : n = bound - x}
<1>1. T \in SUBSET Nat /\ T # {}
  <2>1. PICK x \in S : TRUE
    OBVIOUS
  <2>2. bound - x \in T
    <3>1. x \in 0..bound
      BY <2>1
    <3>2. bound - x \in Nat
      BY <3>1
    <3> QED BY <3>2
  <2> QED BY <2>2
<1>2. PICK m \in T : \A n \in T : m <= n
  BY <1>1, LeastExists
<1>3. PICK x \in S : m = bound - x
  BY <1>2
<1>4. ASSUME NEW y \in S
      PROVE  bound - y \in T
  <2>1. y \in 0..bound
    OBVIOUS
  <2>2. bound - y \in Nat
    BY <2>1
  <2> QED BY <2>2
<1>5. \A y \in S : x >= y
  <2>1. \A y \in S : y \in 0..bound /\ m <= bound - y
    BY <1>2, <1>4
  <2>2. x \in 0..bound
    OBVIOUS
  <2> QED BY <2>1, <2>2, <1>3
<1>6. Max(S) \in S /\ \A y \in S : Max(S) >= y
  BY <1>5 DEF Max
<1> QED BY <1>6

\* The smaller of two natural numbers (std::min).
LEMMA MinOfTwo ==
  ASSUME NEW a \in Nat, NEW b \in Nat
  PROVE  /\ Min({a, b}) \in Nat
         /\ Min({a, b}) <= a /\ Min({a, b}) <= b
         /\ Min({a, b}) = a \/ Min({a, b}) = b
<1>1. {a, b} \in SUBSET Nat /\ {a, b} # {}
  OBVIOUS
<1> QED BY <1>1, LeastExists

\* What SizeAssumption says of the constants, and the sizes made from them.
LEMMA Sizes ==
  /\ Half \in Nat /\ Half > 0
  /\ BlockSize \in Nat /\ BlockSize > 0
  /\ TableSize \in Nat /\ TableSize > 0
  /\ MinMatch \in Nat /\ MinMatch > 1
  /\ MaxLiterals \in Nat
  /\ HashRange \in Nat /\ HashRange > 0
  /\ Byte \in Nat /\ Byte > 0
  /\ 2 ^ Half \in Nat /\ 2 ^ Half > 0
  /\ Short \in Nat
<1>1. /\ Half \in Nat /\ Half > 0
      /\ BlockSize \in Nat /\ BlockSize > 0
      /\ TableSize \in Nat /\ TableSize > 0
      /\ MinMatch \in Nat /\ MinMatch > 1
      /\ MaxLiterals \in Nat
      /\ HashRange \in Nat /\ HashRange > 0
  BY SizeAssumption
<1>2. 2 * Half \in Nat
  BY <1>1
<1>3. 2 ^ (2 * Half) \in Nat /\ 2 ^ (2 * Half) > 0
  BY <1>2, PowerOfTwo
<1>4. 2 ^ Half \in Nat /\ 2 ^ Half > 0
  BY <1>1, PowerOfTwo
<1>5. Short \in Nat
  BY <1>4 DEF Short
<1> QED BY <1>1, <1>3, <1>4, <1>5 DEF Byte

\* Quotient and remainder of natural numbers.
LEMMA Division ==
  ASSUME NEW a \in Nat, NEW b \in Nat, b > 0
  PROVE  a \div b \in Nat /\ a % b \in 0..(b - 1)
OBVIOUS

-----------------------------------------------------------------------------
\* A loop over 1..N whose steps stay in a set has a result there.
Loop(N, Z, base, step) == N \in Nat /\ base \in Z /\ step \in [(1..N) \X Z -> Z]

\* A run of it.
Runs(g, N, Z, base, step) ==
  g \in [0..N -> Z] /\ g[0] = base /\ \A n \in 1..N : g[n] = step[<<n, g[n - 1]>>]

\* Such a loop has a run.
LEMMA LoopExists ==
  ASSUME NEW N, NEW Z, NEW base, NEW step, Loop(N, Z, base, step)
  PROVE  \E g : Runs(g, N, Z, base, step)
<1> USE DEF Loop
<1> DEFINE before == [n \in 1..N |-> n - 1]
<1>1. before \in [1..N -> Nat] /\ \A n \in 1..N : before[n] < n /\ before[n] = n - 1
  OBVIOUS
<1> HIDE DEF before
<1>2. Recursion(N, Z, base, before, step)
  BY <1>1 DEF Recursion
<1>3. PICK g : Solves(g, N, Z, base, before, step)
  BY <1>2, RecursionExists
<1> QED BY <1>1, <1>3 DEF Solves, Runs

\* What a loop over 1..N keeps in a set, stays there.
LEMMA LoopStays ==
  ASSUME NEW N \in Nat, NEW Z, NEW f, f[0] \in Z,
         \A n \in 1..N : f[n - 1] \in Z => f[n] \in Z
  PROVE  \A n \in 0..N : f[n] \in Z
<1> DEFINE P == {n \in 0..N : f[n] \in Z}
<1>1. 0 \in P
  OBVIOUS
<1>2. ASSUME NEW n \in 0..(N - 1), n \in P
      PROVE  n + 1 \in P
  <2>1. n + 1 \in 1..N /\ (n + 1) - 1 = n /\ n + 1 \in 0..N
    OBVIOUS
  <2>2. f[(n + 1) - 1] \in Z
    BY <1>2, <2>1
  <2>3. f[n + 1] \in Z
    BY <2>1, <2>2
  <2> QED BY <2>1, <2>3
<1>3. 0..N \subseteq P
  <2> HIDE DEF P
  <2> QED BY <1>1, <1>2, CountsUp
<1> QED BY <1>3

\* The hash of any bytes is one of HashRange values.
LEMMA HashTyped ==
  ASSUME NEW bytes \in Seq(Nat), NEW seed \in Nat
  PROVE  Hash(bytes, seed) \in 0..(HashRange - 1)
<1> DEFINE N == Len(bytes)
           Z == 0..(HashRange - 1)
           base == (seed + Len(bytes)) % HashRange
           step == [a \in (1..N) \X Z |-> (a[2] * 3 + bytes[a[1]] + 1) % HashRange]
           Defines(g) == g = [n \in 0..Len(bytes) |->
                                IF n = 0 THEN (seed + Len(bytes)) % HashRange
                                ELSE (g[n - 1] * 3 + bytes[n] + 1) % HashRange]
           mixed == CHOOSE g : Defines(g)
<1>1. N \in Nat /\ \A n \in 1..N : bytes[n] \in Nat
  BY LenProperties, ElementOfSeq
<1>2. \A x \in Nat : x % HashRange \in Z
  BY Sizes, Division
<1>3. base \in Z
  BY <1>1, <1>2
<1>4. ASSUME NEW n \in 1..N, NEW h \in Z
      PROVE  (h * 3 + bytes[n] + 1) % HashRange \in Z
  <2>1. h * 3 + bytes[n] + 1 \in Nat
    BY <1>1, Sizes
  <2> HIDE DEF Z
  <2> QED BY <2>1, <1>2
<1>5. PICK g : Runs(g, N, Z, base, step)
  <2>1. step \in [(1..N) \X Z -> Z]
    <3> HIDE DEF Z, N
    <3> QED BY <1>4
  <2> HIDE DEF N, Z, base, step
  <2>2. Loop(N, Z, base, step)
    BY <1>1, <1>3, <2>1 DEF Loop
  <2> QED BY <2>2, LoopExists
<1> USE DEF Runs
<1>6. ASSUME NEW n \in 1..N
      PROVE  g[n] = (g[n - 1] * 3 + bytes[n] + 1) % HashRange
  <2>1. n - 1 \in 0..N
    BY <1>1
  <2>2. g[n - 1] \in Z
    BY <1>5, <2>1
  <2> HIDE DEF Z
  <2> QED BY <1>5, <2>2
<1>7. Defines(g)
  <2>1. \A n \in 0..N : n = 0 \/ n \in 1..N
    BY <1>1
  <2> QED BY <1>5, <1>6, <2>1
<1>8. Defines(mixed)
  <2> HIDE DEF Defines
  <2> QED BY <1>7
<1>9. \A n \in 0..N : mixed[n] = IF n = 0 THEN (seed + Len(bytes)) % HashRange
                                 ELSE (mixed[n - 1] * 3 + bytes[n] + 1) % HashRange
  <2> HIDE DEF mixed
  <2> QED BY <1>8, Zenon
<1>10. Hash(bytes, seed) = mixed[N]
  BY DEF Hash
<1> HIDE DEF mixed, Defines, Z
<1>11. mixed[0] \in Z /\ \A n \in 1..N : mixed[n - 1] \in Z => mixed[n] \in Z
  <2>1. 0 \in 0..N /\ \A n \in 1..N : n \in 0..N /\ n # 0
    BY <1>1
  <2> QED BY <1>3, <1>4, <1>9, <2>1
<1>12. \A n \in 0..N : mixed[n] \in Z
  <2> HIDE DEF N
  <2> QED BY <1>1, <1>11, LoopStays
<1>13. N \in 0..N
  BY <1>1
<1> QED BY <1>10, <1>12, <1>13 DEF Z

\* The checksum of a block and the key of a run.
LEMMA HashNatural ==
  ASSUME NEW bytes \in Seq(Nat), NEW seed \in Nat
  PROVE  Hash(bytes, seed) \in Nat
<1>1. Hash(bytes, seed) \in 0..(HashRange - 1)
  BY HashTyped
<1> QED BY <1>1, Sizes

\* A run hashes to an entry of the table (the head of a chain).
LEMMA KeyTyped ==
  ASSUME NEW bytes \in Seq(Nat)
  PROVE  KeyOf(bytes) \in 0..(TableSize - 1)
<1>1. Hash(bytes, 1) \in Nat
  BY HashNatural
<1> QED BY <1>1, Sizes, Division DEF KeyOf

-----------------------------------------------------------------------------
\* A number up to the size of a block has one of Half lengths.
LEMMA IntegerSizeTyped ==
  ASSUME NEW value \in 0..BlockSize
  PROVE  /\ IntegerSize(value) \in 1..Half
         /\ value < 2 ^ ((2 * Half - 1) * IntegerSize(value))
<1> DEFINE Power(c) == 2 ^ ((2 * Half - 1) * c)
           S == {c \in 1..Half : value < Power(c)}
<1>1. value \in Nat /\ \A c \in 1..Half : Power(c) \in Nat
  <2>1. ASSUME NEW c \in 1..Half
        PROVE  (2 * Half - 1) * c \in Nat
    <3>1. 2 * Half - 1 \in Nat /\ c \in Nat
      BY Sizes
    <3> QED BY <3>1
  <2> QED BY <2>1, PowerOfTwo, Sizes
<1>2. Half \in S
  <2>1. BlockSize < Power(Half)
    BY SizeAssumption
  <2>2. Half \in 1..Half
    BY Sizes
  <2> HIDE DEF Power
  <2> QED BY <1>1, <2>1, <2>2, Sizes
<1> HIDE DEF Power
<1>3. PICK m \in S : \A d \in S : m <= d
  <2>1. S \in SUBSET Nat /\ S # {}
    BY <1>2
  <2> HIDE DEF S
  <2> QED BY <2>1, LeastExists
<1>4. m \in 1..Half /\ value < Power(m) /\ \A d \in 1..(m - 1) : value >= Power(d)
  <2>1. m \in 1..Half /\ value < Power(m)
    BY <1>3
  <2>2. ASSUME NEW d \in 1..(m - 1)
        PROVE  value >= Power(d)
    <3>1. d \in 1..Half /\ d < m
      BY <2>1, Sizes
    <3>2. ~(value < Power(d))
      BY <1>3, <3>1
    <3> QED BY <1>1, <3>1, <3>2
  <2> QED BY <2>1, <2>2
<1> QED BY <1>4 DEF IntegerSize, Power

\* The bytes of a number: the first has its length too (integer).
LEMMA IntegerBytes ==
  ASSUME NEW value \in 0..BlockSize
  PROVE  /\ Integer(value) \in Seq(Nat)
         /\ Len(Integer(value)) = IntegerSize(value)
         /\ Integer(value)[1] = 2 ^ (2 * Half - IntegerSize(value))
                                  + (value \div 2 ^ (2 * Half * (IntegerSize(value) - 1)))
         /\ \A n \in 1..(IntegerSize(value) - 1) :
              Integer(value)[n + 1] = (value \div 2 ^ (2 * Half * (IntegerSize(value) - 1 - n))) % Byte
<1> DEFINE count == IntegerSize(value)
           first == 2 ^ (2 * Half - count) + (value \div 2 ^ (2 * Half * (count - 1)))
           tail == [n \in 1..(count - 1) |-> (value \div 2 ^ (2 * Half * (count - 1 - n))) % Byte]
<1>1. count \in 1..Half /\ value \in Nat
  BY IntegerSizeTyped, Sizes
<1> HIDE DEF count
<1>2. ASSUME NEW k \in Nat
      PROVE  value \div 2 ^ (2 * Half * k) \in Nat
  <2>1. 2 * Half * k \in Nat
    BY Sizes
  <2>2. 2 ^ (2 * Half * k) \in Nat /\ 2 ^ (2 * Half * k) > 0
    BY <2>1, PowerOfTwo
  <2> QED BY <1>1, <2>2, Division
<1>3. first \in Nat
  <2>1. 2 * Half - count \in Nat /\ count - 1 \in Nat
    BY <1>1, Sizes
  <2>2. 2 ^ (2 * Half - count) \in Nat
    BY <2>1, PowerOfTwo
  <2>3. value \div 2 ^ (2 * Half * (count - 1)) \in Nat
    BY <1>2, <2>1
  <2> QED BY <2>2, <2>3
<1>4. tail \in Seq(Nat)
  <2>1. ASSUME NEW n \in 1..(count - 1)
        PROVE  (value \div 2 ^ (2 * Half * (count - 1 - n))) % Byte \in Nat
    <3>1. count - 1 - n \in Nat
      BY <1>1, Sizes
    <3>2. value \div 2 ^ (2 * Half * (count - 1 - n)) \in Nat
      BY <1>2, <3>1
    <3> QED BY <3>2, Sizes, Division
  <2>2. count - 1 \in Nat
    BY <1>1, Sizes
  <2> QED BY <2>1, <2>2, IsASeq
<1>5. /\ <<first>> \o tail \in Seq(Nat)
      /\ Len(<<first>> \o tail) = count
      /\ (<<first>> \o tail)[1] = first
      /\ \A n \in 1..(count - 1) : (<<first>> \o tail)[n + 1] = tail[n]
  <2>1. Len(tail) = count - 1 /\ count - 1 \in Nat
    <3>1. count - 1 \in Nat
      BY <1>1, Sizes
    <3> QED BY <1>4, <3>1, LenProperties
  <2> HIDE DEF first, tail
  <2>2. <<first>> \in Seq(Nat) /\ Len(<<first>>) = 1 /\ <<first>>[1] = first
    BY <1>3
  <2>3. /\ <<first>> \o tail \in Seq(Nat)
        /\ Len(<<first>> \o tail) = 1 + (count - 1)
        /\ \A i \in 1..(1 + (count - 1)) :
             (<<first>> \o tail)[i] = IF i <= 1 THEN <<first>>[i] ELSE tail[i - 1]
    BY <1>4, <2>1, <2>2, ConcatProperties
  <2>4. 1 + (count - 1) = count /\ 1 \in 1..count
    BY <1>1, Sizes
  <2>5. \A n \in 1..(count - 1) : n + 1 \in 1..count /\ ~(n + 1 <= 1) /\ (n + 1) - 1 = n
    BY <1>1, <2>1, Sizes
  <2> QED BY <2>2, <2>3, <2>4, <2>5
<1>6. Integer(value) = <<first>> \o tail
  BY DEF Integer, count
<1>7. \A n \in 1..(count - 1) : tail[n] = (value \div 2 ^ (2 * Half * (count - 1 - n))) % Byte
  OBVIOUS
<1> HIDE DEF tail
<1> QED BY <1>5, <1>6, <1>7 DEF count

\* So its bytes are numbers.
LEMMA IntegerTyped ==
  ASSUME NEW value \in 0..BlockSize
  PROVE  Integer(value) \in Seq(Nat)
BY IntegerBytes

\* What is read back as a number is a number, and the rest of the stream.
LEMMA NumberCountTyped ==
  ASSUME NEW first \in Nat
  PROVE  NumberCount(first) \in 1..(Half + 1)
<1> DEFINE S == {c \in 1..Half : first \div 2 ^ (2 * Half - c) = 1} \cup {Half + 1}
<1>1. S \subseteq 1..(Half + 1) /\ S # {}
  BY Sizes
<1>2. S \in SUBSET Nat
  BY <1>1, Sizes
<1>3. Min(S) \in S
  <2> HIDE DEF S
  <2> QED BY <1>1, <1>2, LeastExists
<1> QED BY <1>1, <1>3 DEF NumberCount

\* The loop that puts the bytes of a number together (Decompressor::number).
LEMMA NumberValueLoop ==
  ASSUME NEW bytes \in Seq(Nat), NEW count \in 1..Half, count <= Len(bytes)
  PROVE  \E v : /\ \A n \in 0..(count - 1) : v[n] \in Nat
                /\ v[0] = bytes[1] % 2 ^ (2 * Half - count)
                /\ \A n \in 1..(count - 1) : v[n] = v[n - 1] * Byte + bytes[n + 1]
                /\ NumberValue(bytes, count) = v[count - 1]
<1> DEFINE N == count - 1
           base == bytes[1] % 2 ^ (2 * Half - count)
           step == [a \in (1..N) \X Nat |-> a[2] * Byte + bytes[a[1] + 1]]
           Defines(g) == g = [n \in 0..(count - 1) |->
                                IF n = 0 THEN bytes[1] % 2 ^ (2 * Half - count)
                                ELSE g[n - 1] * Byte + bytes[n + 1]]
           value == CHOOSE g : Defines(g)
<1>1. N \in Nat /\ bytes[1] \in Nat /\ \A n \in 1..N : bytes[n + 1] \in Nat
  <2>1. Len(bytes) \in Nat /\ \A n \in 1..Len(bytes) : bytes[n] \in Nat
    BY LenProperties, ElementOfSeq
  <2>2. 1 \in 1..Len(bytes) /\ \A n \in 1..N : n + 1 \in 1..Len(bytes)
    BY <2>1, Sizes
  <2> QED BY <2>1, <2>2, Sizes
<1>2. base \in Nat
  <2>1. 2 * Half - count \in Nat
    BY Sizes
  <2>2. 2 ^ (2 * Half - count) \in Nat /\ 2 ^ (2 * Half - count) > 0
    BY <2>1, PowerOfTwo
  <2> QED BY <1>1, <2>2, Division
<1>3. ASSUME NEW n \in 1..N, NEW v \in Nat
      PROVE  v * Byte + bytes[n + 1] \in Nat
  <2>1. v * Byte \in Nat
    BY Sizes
  <2> QED BY <2>1, <1>1
<1>4. PICK g : Runs(g, N, Nat, base, step)
  <2>1. step \in [(1..N) \X Nat -> Nat]
    <3> HIDE DEF N
    <3> QED BY <1>3
  <2> HIDE DEF N, base, step
  <2>2. Loop(N, Nat, base, step)
    BY <1>1, <1>2, <2>1 DEF Loop
  <2> QED BY <2>2, LoopExists
<1> USE DEF Runs
<1>5. ASSUME NEW n \in 1..N
      PROVE  g[n] = g[n - 1] * Byte + bytes[n + 1]
  <2>1. n - 1 \in 0..N
    BY <1>1
  <2>2. g[n - 1] \in Nat
    BY <1>4, <2>1
  <2> QED BY <1>4, <2>2
<1>6. Defines(g)
  <2>1. \A n \in 0..N : n = 0 \/ n \in 1..N
    BY <1>1
  <2> HIDE DEF step
  <2> QED BY <1>4, <1>5, <2>1
<1>7. Defines(value)
  <2> HIDE DEF Defines
  <2> QED BY <1>6
<1>8. \A n \in 0..N : value[n] = IF n = 0 THEN base ELSE value[n - 1] * Byte + bytes[n + 1]
  <2> HIDE DEF value
  <2> QED BY <1>7, Zenon
<1>9. NumberValue(bytes, count) = value[N]
  BY DEF NumberValue
<1> HIDE DEF value, Defines, base
<1>10. value[0] \in Nat /\ \A n \in 1..N : value[n - 1] \in Nat => value[n] \in Nat
  <2>1. 0 \in 0..N /\ \A n \in 1..N : n \in 0..N /\ n # 0
    BY <1>1
  <2> QED BY <1>2, <1>3, <1>8, <2>1
<1>11. \A n \in 0..N : value[n] \in Nat
  <2> HIDE DEF N
  <2> QED BY <1>1, <1>10, LoopStays
<1>12. value[0] = base /\ \A n \in 1..N : value[n] = value[n - 1] * Byte + bytes[n + 1]
  <2>1. 0 \in 0..N /\ \A n \in 1..N : n \in 0..N /\ n # 0
    BY <1>1
  <2> QED BY <1>8, <2>1
<1> QED BY <1>9, <1>11, <1>12 DEF base

\* So they give a number.
LEMMA NumberValueTyped ==
  ASSUME NEW bytes \in Seq(Nat), NEW count \in 1..Half, count <= Len(bytes)
  PROVE  NumberValue(bytes, count) \in Nat
<1>1. PICK v : /\ \A n \in 0..(count - 1) : v[n] \in Nat
               /\ NumberValue(bytes, count) = v[count - 1]
  BY NumberValueLoop
<1>2. count - 1 \in 0..(count - 1)
  BY Sizes
<1> QED BY <1>1, <1>2

\* A number taken from the stream, unless there is none.
LEMMA NumberTyped ==
  ASSUME NEW bytes \in Seq(Nat)
  PROVE  /\ Number(bytes).ok \in BOOLEAN
         /\ Number(bytes).ok => Number(bytes).value \in Nat /\ Number(bytes).rest \in Seq(Nat)
<1> DEFINE count == NumberCount(Head(bytes))
<1>1. CASE bytes = <<>> \/ count > Min({Half, Len(bytes)})
  BY <1>1 DEF Number
<1>2. CASE ~(bytes = <<>> \/ count > Min({Half, Len(bytes)}))
  <2>1. Number(bytes) = [ok |-> TRUE, value |-> NumberValue(bytes, count),
                         rest |-> SubSeq(bytes, count + 1, Len(bytes))]
    BY <1>2 DEF Number
  <2>2. Head(bytes) \in Nat /\ Len(bytes) \in Nat
    BY <1>2, HeadTailProperties, LenProperties
  <2>3. count \in 1..(Half + 1)
    BY <2>2, NumberCountTyped
  <2>4. count \in 1..Half /\ count <= Len(bytes)
    <3> HIDE DEF count
    <3>1. Min({Half, Len(bytes)}) \in Nat /\ Min({Half, Len(bytes)}) <= Half /\ Min({Half, Len(bytes)}) <= Len(bytes)
      BY <2>2, Sizes, MinOfTwo
    <3>2. count <= Min({Half, Len(bytes)})
      BY <1>2, <2>3, <3>1, Sizes
    <3> QED BY <2>2, <2>3, <3>1, <3>2, Sizes
  <2> HIDE DEF count
  <2>5. NumberValue(bytes, count) \in Nat
    BY <2>4, NumberValueTyped
  <2>6. SubSeq(bytes, count + 1, Len(bytes)) \in Seq(Nat)
    <3>1. count + 1 \in Int /\ Len(bytes) \in Int /\ \A i \in (count + 1)..Len(bytes) : i \in 1..Len(bytes)
      BY <2>2, <2>4, Sizes
    <3>2. \A i \in (count + 1)..Len(bytes) : bytes[i] \in Nat
      BY <3>1, ElementOfSeq
    <3> QED BY <3>1, <3>2, SubSeqProperties
  <2> QED BY <2>1, <2>5, <2>6
<1> QED BY <1>1, <1>2

-----------------------------------------------------------------------------
(* The compressor: what it writes are numbers, as long as the literals and  *)
(* the run it has pending, and the distances to earlier items, fit a block. *)

\* Entries of the table for items before the n-th, at positions before p.
EntriesBefore(p, n) == [position : 0..(p - 1), number : 0..(n - 1)]

\* What the compressor has pending fits the block, and its table the items.
EncoderSound ==
  /\ input \in Seq(Nat)
  /\ rest \in Seq(Nat)
  /\ stream \in Seq(Nat)
  /\ block \in Seq(Nat)
  /\ literal \in Seq(Nat)
  /\ Len(block) <= BlockSize
  /\ position \in 0..Len(block)
  /\ number \in 0..position
  /\ Len(literal) <= position
  /\ phase = "blocks" => literal = <<>>
  /\ chains \in [0..(TableSize - 1) -> Seq(EntriesBefore(position, number))]
  /\ free \in Nat
  /\ checksum \in Nat

\* Pending literals, with the length of the run that follows them.
LEMMA FlushedTyped ==
  ASSUME NEW reference \in Nat, literal \in Seq(Nat), Len(literal) <= BlockSize
  PROVE  Flushed(reference) \in Seq(Nat)
<1> DEFINE length == Len(literal)
           first == Min({length, Short}) * 2 ^ Half + reference
           long == IF length >= Short THEN Integer(length) ELSE <<>>
<1>1. length \in Nat /\ length \in 0..BlockSize
  BY LenProperties, Sizes
<1>2. <<first>> \in Seq(Nat)
  <2>1. Min({length, Short}) \in Nat
    BY <1>1, Sizes, MinOfTwo
  <2>2. Min({length, Short}) * 2 ^ Half \in Nat
    BY <2>1, Sizes
  <2>3. first \in Nat
    BY <2>2
  <2> QED BY <2>3
<1>3. long \in Seq(Nat)
  <2>1. Integer(length) \in Seq(Nat)
    BY <1>1, IntegerTyped
  <2> QED BY <2>1, EmptySeq
<1> HIDE DEF first, long
<1>4. <<first>> \o long \o literal \in Seq(Nat)
  BY <1>2, <1>3, ConcatProperties
<1> QED BY <1>4, EmptySeq DEF Flushed, first, long

\* Bytes before the position that come again at it.
Repeats(earlier, length) ==
  /\ earlier + length <= position
  /\ \A n \in 1..length : block[earlier + n] = block[position + n]

\* A match stays inside the block and repeats bytes before the position.
LEMMA MatchLengthTyped ==
  ASSUME EncoderSound, NEW earlier \in 0..(position - 1)
  PROVE  /\ MatchLength(earlier) \in 0..(Len(block) - position)
         /\ Repeats(earlier, MatchLength(earlier))
<1> DEFINE bound == Min({Len(block) - position, position - earlier})
           S == {l \in 0..bound : \A n \in 1..l : block[earlier + n] = block[position + n]}
<1>1. Len(block) \in Nat /\ position \in Nat /\ position <= Len(block) /\ earlier \in Nat /\ earlier <= position
  BY LenProperties DEF EncoderSound
<1>2. Len(block) - position \in Nat /\ position - earlier \in Nat
  BY <1>1
<1>3. bound \in Nat /\ bound <= Len(block) - position /\ bound <= position - earlier
  BY <1>2, MinOfTwo
<1> HIDE DEF bound
<1>4. S \in SUBSET (0..bound) /\ S # {}
  <2>1. 0 \in S
    BY <1>3
  <2> QED BY <2>1
<1>5. Max(S) \in S
  <2> HIDE DEF S
  <2> QED BY <1>3, <1>4, GreatestExists
<1>6. MatchLength(earlier) = Max(S)
  BY DEF MatchLength, bound
<1>7. Max(S) \in 0..bound /\ \A n \in 1..Max(S) : block[earlier + n] = block[position + n]
  BY <1>5
<1> HIDE DEF S
<1>8. earlier + Max(S) <= position
  BY <1>1, <1>3, <1>7
<1> QED BY <1>1, <1>3, <1>6, <1>7, <1>8 DEF Repeats

\* The entries of the table.
Entered(e) ==
  /\ e \in EntriesBefore(position, number)
  /\ \E key \in 0..(TableSize - 1) : \E i \in 1..Len(chains[key]) : e = chains[key][i]

\* A match is a run at the position of an entry of the table.
Candidate(m) == \E e : Entered(e) /\ e.number = m.number /\ Repeats(e.position, m.length)

\* What the best match may be.
Matches ==
  {None} \cup {m \in [length : MinMatch..(Len(block) - position), size : Nat, number : 0..(number - 1)] : Candidate(m)}

\* A candidate replaces the best match only by a match of its own.
LEMMA BetterTyped ==
  ASSUME EncoderSound, NEW best \in Matches, NEW entry \in EntriesBefore(position, number), Entered(entry)
  PROVE  Better(best, entry) \in Matches
<1> DEFINE length == MatchLength(entry.position)
           size == ReferenceSize(length, number - entry.number)
<1>1. length \in 0..(Len(block) - position) /\ Repeats(entry.position, length)
  BY MatchLengthTyped DEF EntriesBefore
<1>2. Len(block) \in Nat /\ Len(block) <= BlockSize /\ position \in 0..Len(block) /\ number \in 0..position
  BY LenProperties DEF EncoderSound
<1>3. entry.number \in 0..(number - 1)
  BY DEF EntriesBefore
<1> HIDE DEF length
<1>4. CASE length >= MinMatch
  <2>1. number - entry.number \in 0..BlockSize /\ length - MinMatch + 1 \in 0..BlockSize
    BY <1>1, <1>2, <1>3, <1>4, Sizes
  <2>2. IntegerSize(number - entry.number) \in Nat /\ IntegerSize(length - MinMatch + 1) \in Nat
    <3>1. \A c \in 1..Half : c \in Nat
      BY Sizes
    <3> QED BY <2>1, <3>1, IntegerSizeTyped
  <2>3. size \in Nat
    BY <2>2 DEF ReferenceSize
  <2> HIDE DEF size
  <2>4. length \in MinMatch..(Len(block) - position)
    BY <1>1, <1>2, <1>4, Sizes
  <2>5. [length |-> length, size |-> size, number |-> entry.number] \in Matches
    <3> DEFINE m == [length |-> length, size |-> size, number |-> entry.number]
    <3>1. m.length = length /\ m.number = entry.number
      OBVIOUS
    <3>2. m \in [length : MinMatch..(Len(block) - position), size : Nat, number : 0..(number - 1)]
      BY <2>3, <2>4, <1>3
    <3> HIDE DEF m
    <3>3. Candidate(m)
      BY <1>1, <3>1 DEF Candidate
    <3> QED BY <3>2, <3>3 DEF Matches, m
  <2> QED BY <2>5 DEF Better, length, size
<1>5. CASE ~(length >= MinMatch)
  BY <1>5 DEF Better, length
<1> QED BY <1>4, <1>5

\* The best match among the entries of a chain is none, or lies in the block
\* and was numbered before.
LEMMA BestMatchTyped ==
  ASSUME EncoderSound
  PROVE  BestMatch \in Matches
<1> DEFINE bytes == SubSeq(block, position + 1, position + MinMatch)
           chain == chains[KeyOf(bytes)]
           N == Len(chain)
           Z == Matches
           step == [a \in (1..N) \X Z |-> Better(a[2], chain[a[1]])]
           Defines(g) == g = [n \in 0..Len(chain) |-> IF n = 0 THEN None ELSE Better(g[n - 1], chain[n])]
           best == CHOOSE g : Defines(g)
<1>1. None \in Z
  BY DEF Matches
<1>2. CASE position + MinMatch > Len(block)
  BY <1>1, <1>2 DEF BestMatch
<1>3. CASE ~(position + MinMatch > Len(block))
  <2>1. bytes \in Seq(Nat)
    <3>1. Len(block) \in Nat /\ position \in Nat /\ block \in Seq(Nat)
      BY LenProperties DEF EncoderSound
    <3>2. /\ position + 1 \in Int /\ position + MinMatch \in Int
          /\ \A i \in (position + 1)..(position + MinMatch) : i \in 1..Len(block)
      BY <3>1, <1>3, Sizes
    <3>3. \A i \in (position + 1)..(position + MinMatch) : block[i] \in Nat
      BY <3>1, <3>2, ElementOfSeq
    <3> QED BY <3>2, <3>3, SubSeqProperties
  <2>2. chain \in Seq(EntriesBefore(position, number))
    <3>1. KeyOf(bytes) \in 0..(TableSize - 1)
      BY <2>1, KeyTyped
    <3> QED BY <3>1 DEF EncoderSound
  <2> HIDE DEF chain
  <2>3. N \in Nat /\ \A n \in 1..N : chain[n] \in EntriesBefore(position, number)
    BY <2>2, LenProperties, ElementOfSeq
  <2>4. \A n \in 1..N : Entered(chain[n])
    <3>1. KeyOf(bytes) \in 0..(TableSize - 1)
      BY <2>1, KeyTyped
    <3> QED BY <2>3, <3>1 DEF Entered, chain
  <2>5. ASSUME NEW n \in 1..N, NEW b \in Z
        PROVE  Better(b, chain[n]) \in Z
    BY <2>3, <2>4, BetterTyped
  <2>6. PICK g : Runs(g, N, Z, None, step)
    <3>1. step \in [(1..N) \X Z -> Z]
      <4> HIDE DEF Z, N
      <4> QED BY <2>5
    <3> HIDE DEF N, Z, step
    <3>2. Loop(N, Z, None, step)
      BY <2>3, <1>1, <3>1 DEF Loop
    <3> QED BY <3>2, LoopExists
  <2> HIDE DEF Z
  <2>7. g \in [0..N -> Z] /\ g[0] = None /\ \A n \in 1..N : g[n] = step[<<n, g[n - 1]>>]
    BY <2>6 DEF Runs
  <2>8. ASSUME NEW n \in 1..N
        PROVE  g[n] = Better(g[n - 1], chain[n])
    <3>1. n - 1 \in 0..N
      BY <2>3
    <3>2. g[n - 1] \in Z
      BY <2>7, <3>1
    <3> QED BY <2>7, <3>2
  <2>9. Defines(g)
    <3>1. \A n \in 0..N : n = 0 \/ n \in 1..N
      BY <2>3
    <3> HIDE DEF step
    <3> QED BY <2>7, <2>8, <3>1
  <2>10. Defines(best)
    <3> HIDE DEF Defines
    <3> QED BY <2>9
  <2>11. \A n \in 0..N : best[n] = IF n = 0 THEN None ELSE Better(best[n - 1], chain[n])
    <3> HIDE DEF best
    <3> QED BY <2>10, Zenon
  <2>12. BestMatch = best[N]
    BY <1>3 DEF BestMatch, chain
  <2> HIDE DEF best, Defines
  <2>13. best[0] \in Z /\ \A n \in 1..N : best[n - 1] \in Z => best[n] \in Z
    <3>1. 0 \in 0..N /\ \A n \in 1..N : n \in 0..N /\ n # 0
      BY <2>3
    <3> QED BY <1>1, <2>5, <2>11, <3>1
  <2>14. \A n \in 0..N : best[n] \in Z
    <3> HIDE DEF N
    <3> QED BY <2>3, <2>13, LoopStays
  <2>15. N \in 0..N
    BY <2>3
  <2> QED BY <2>12, <2>14, <2>15 DEF Z
<1> QED BY <1>2, <1>3

\* Entries stay older than a position that moves on.
LEMMA EntriesGrow ==
  ASSUME NEW p \in Nat, NEW n \in Nat, NEW q \in Nat, p < q
  PROVE  /\ [position |-> p, number |-> n] \in EntriesBefore(q, n + 1)
         /\ EntriesBefore(p, n) \subseteq EntriesBefore(q, n + 1)
<1>1. p \in 0..(q - 1) /\ n \in 0..((n + 1) - 1)
  OBVIOUS
<1>2. 0..(p - 1) \subseteq 0..(q - 1) /\ 0..(n - 1) \subseteq 0..((n + 1) - 1)
  OBVIOUS
<1>3. [position |-> p, number |-> n] \in EntriesBefore(q, n + 1)
  BY <1>1 DEF EntriesBefore
<1>4. EntriesBefore(p, n) \subseteq EntriesBefore(q, n + 1)
  BY <1>2 DEF EntriesBefore
<1> QED BY <1>3, <1>4

\* The table keeps entries of items that were numbered before.
LEMMA InsertSound ==
  ASSUME EncoderSound, position < Len(block), Insert, position' \in Nat, position < position'
  PROVE  /\ number' = number + 1
         /\ free' \in Nat
         /\ chains' \in [0..(TableSize - 1) -> Seq(EntriesBefore(position', number'))]
<1> DEFINE Old == EntriesBefore(position, number)
           New == EntriesBefore(position', number')
           bytes == SubSeq(block, position + 1, position + MinMatch)
           key == KeyOf(bytes)
           entry == [position |-> position, number |-> number]
<1>1. number' = number + 1 /\ number \in Nat /\ position \in Nat /\ Len(block) \in Nat /\ block \in Seq(Nat)
  BY LenProperties DEF EncoderSound, Insert
<1>2. entry \in New /\ Old \subseteq New
  BY <1>1, EntriesGrow
<1> HIDE DEF Old, New, entry
<1>4. chains \in [0..(TableSize - 1) -> Seq(New)]
  <2>1. chains \in [0..(TableSize - 1) -> Seq(Old)]
    BY DEF EncoderSound, Old
  <2>2. \A s \in Seq(Old) : s \in Seq(New)
    BY <1>2, SeqMonotonic
  <2> QED BY <2>1, <2>2
<1>5. free \in Nat
  BY DEF EncoderSound
<1>6. CASE position + MinMatch > Len(block)
  BY <1>1, <1>4, <1>5, <1>6 DEF Insert, New
<1>7. CASE ~(position + MinMatch > Len(block))
  <2>1. free' = IF free > 0 THEN free - 1 ELSE 0
    BY <1>7 DEF Insert
  <2>2. free' \in Nat
    BY <2>1, <1>5
  <2>3. <<entry>> \in Seq(New)
    BY <1>2
  <2>4. chains' = [chains EXCEPT ![key] = IF free > 0 THEN <<entry>> \o chains[key]
                                          ELSE IF chains[key] = <<>> THEN chains[key]
                                          ELSE <<entry>> \o Front(chains[key])]
    BY <1>7 DEF Insert, entry
  <2> HIDE DEF key
  <2>5. ASSUME NEW s \in Seq(New)
        PROVE  <<entry>> \o s \in Seq(New) /\ (s # <<>> => <<entry>> \o Front(s) \in Seq(New))
    <3>1. <<entry>> \o s \in Seq(New)
      BY <2>3, ConcatProperties
    <3>2. Front(s) \in Seq(New)
      <4>1. Len(s) \in Nat
        BY LenProperties
      <4>2. 1 \in Int /\ Len(s) - 1 \in Int /\ \A i \in 1..(Len(s) - 1) : i \in 1..Len(s)
        BY <4>1
      <4>3. \A i \in 1..(Len(s) - 1) : s[i] \in New
        BY <4>2, ElementOfSeq
      <4>4. SubSeq(s, 1, Len(s) - 1) \in Seq(New)
        BY <4>2, <4>3, SubSeqProperties
      <4> QED BY <4>4 DEF Front
    <3>3. <<entry>> \o Front(s) \in Seq(New)
      BY <2>3, <3>2, ConcatProperties
    <3> QED BY <3>1, <3>3
  <2>6. key \in 0..(TableSize - 1) => chains' \in [0..(TableSize - 1) -> Seq(New)]
    <3>1. ASSUME key \in 0..(TableSize - 1)
          PROVE  chains[key] \in Seq(New)
      BY <1>4, <3>1
    <3>2. key \in 0..(TableSize - 1) =>
            /\ <<entry>> \o chains[key] \in Seq(New)
            /\ chains[key] # <<>> => <<entry>> \o Front(chains[key]) \in Seq(New)
      BY <2>5, <3>1
    <3> QED BY <1>4, <2>4, <3>1, <3>2
  <2>7. chains' \in [0..(TableSize - 1) -> Seq(New)]
    BY <2>4, <2>6, <1>4
  <2> QED BY <1>1, <2>2, <2>7 DEF New
<1> QED BY <1>6, <1>7

-----------------------------------------------------------------------------
(* The decompressor: whatever the stream holds, each part of reading a tag  *)
(* leaves it sound.                                                         *)

\* The states of a decompressor.
Decoders ==
  [rest : Seq(Nat), block : Seq(Nat), indices : Seq(Nat), checksum : Nat, output : Seq(Nat), maximum : Nat,
   status : {"reading", "refused", "done"}]

\* Item positions below a length, in their order.
Ordered(indices, length) ==
  \A i \in 1..Len(indices) : indices[i] < length /\ (i > 1 => indices[i - 1] < indices[i])

\* A decompressor inside its bounds, while it works on a tag.
Sound(d) ==
  /\ d \in Decoders
  /\ Len(d.block) <= BlockSize
  /\ Len(d.indices) <= Len(d.block)
  /\ Len(d.output) <= d.maximum
  /\ Ordered(d.indices, Len(d.block))

\* Between two tags a block that is full has been appended.
DecoderSound(d) == Sound(d) /\ (Len(d.block) < BlockSize \/ d.status = "refused")

\* Giving up changes nothing but the status.
LEMMA RefuseSound ==
  ASSUME NEW d, Sound(d)
  PROVE  DecoderSound(Refuse(d)) /\ Refuse(d).status = "refused"
<1> DEFINE e == [d EXCEPT !.status = "refused"]
<1>1. /\ e \in Decoders /\ e.block = d.block /\ e.indices = d.indices /\ e.output = d.output
      /\ e.maximum = d.maximum /\ e.status = "refused"
  BY DEF Sound, Decoders
<1> HIDE DEF e
<1>2. Sound(e)
  BY <1>1 DEF Sound
<1> QED BY <1>1, <1>2 DEF Refuse, DecoderSound, e

\* A block is appended only within the limit (Decompressor::append).
LEMMA AppendBlockSound ==
  ASSUME NEW d, Sound(d)
  PROVE  /\ Sound(AppendBlock(d))
         /\ AppendBlock(d).block = d.block
         /\ AppendBlock(d).status \in {d.status, "refused"}
<1>1. CASE Len(d.block) > d.maximum - Len(d.output)
  <2>1. AppendBlock(d) = Refuse(d)
    BY <1>1 DEF AppendBlock
  <2>2. Refuse(d).block = d.block
    BY DEF Refuse, Sound, Decoders
  <2> QED BY <2>1, <2>2, RefuseSound DEF DecoderSound
<1>2. CASE ~(Len(d.block) > d.maximum - Len(d.output))
  <2> DEFINE e == [d EXCEPT !.output = d.output \o d.block]
  <2>1. AppendBlock(d) = e
    BY <1>2 DEF AppendBlock
  <2>2. d.output \in Seq(Nat) /\ d.block \in Seq(Nat) /\ d.maximum \in Nat
    BY DEF Sound, Decoders
  <2>3. d.output \o d.block \in Seq(Nat) /\ Len(d.output \o d.block) = Len(d.output) + Len(d.block)
    BY <2>2, ConcatProperties
  <2>4. Len(d.output) \in Nat /\ Len(d.block) \in Nat
    BY <2>2, LenProperties
  <2>5. Len(d.output \o d.block) <= d.maximum
    <3>1. \A a, b, m \in Nat : ~(b > m - a) => a + b <= m
      OBVIOUS
    <3>2. Len(d.output) + Len(d.block) <= d.maximum
      BY <1>2, <2>2, <2>4, <3>1
    <3> QED BY <2>3, <3>2
  <2>6. /\ e \in Decoders /\ e.block = d.block /\ e.indices = d.indices /\ e.output = d.output \o d.block
        /\ e.maximum = d.maximum /\ e.status = d.status
    BY <2>3 DEF Sound, Decoders
  <2> HIDE DEF e
  <2>7. Sound(e)
    BY <2>5, <2>6 DEF Sound
  <2> QED BY <2>1, <2>6, <2>7
<1> QED BY <1>1, <1>2

\* Literals are numbered one by one.
LEMMA CopyLiteralsSound ==
  ASSUME NEW d, Sound(d), NEW count \in Nat
  PROVE  Sound(CopyLiterals(d, count))
<1> DEFINE L == Len(d.block)
           bytes == SubSeq(d.rest, 1, count)
           tail == SubSeq(d.rest, count + 1, Len(d.rest))
           more == [n \in 1..count |-> L + n - 1]
           e == [d EXCEPT !.rest = tail, !.block = d.block \o bytes, !.indices = d.indices \o more]
<1>1. d \in Decoders /\ d.rest \in Seq(Nat) /\ d.block \in Seq(Nat) /\ d.indices \in Seq(Nat)
  BY DEF Sound, Decoders
<1>2. L \in Nat /\ Len(d.rest) \in Nat /\ Len(d.indices) \in Nat /\ L <= BlockSize
  BY <1>1, LenProperties DEF Sound
<1>3. CASE count > MaxLiterals \/ count > BlockSize - Len(d.block) \/ count > Len(d.rest)
  BY <1>3, RefuseSound DEF CopyLiterals, DecoderSound
<1>4. CASE ~(count > MaxLiterals \/ count > BlockSize - Len(d.block) \/ count > Len(d.rest))
  <2>1. CopyLiterals(d, count) = e
    BY <1>4 DEF CopyLiterals
  <2>2. count <= Len(d.rest) /\ count <= BlockSize - L
    BY <1>2, <1>4, Sizes
  <2>3. bytes \in Seq(Nat) /\ Len(bytes) = count
    <3>1. \A i \in 1..count : i \in 1..Len(d.rest)
      BY <1>2, <2>2
    <3>2. \A i \in 1..count : d.rest[i] \in Nat
      BY <1>1, <3>1, ElementOfSeq
    <3>3. bytes \in Seq(Nat) /\ Len(bytes) = IF 1 <= count THEN count - 1 + 1 ELSE 0
      BY <3>2, SubSeqProperties
    <3> QED BY <3>3
  <2>4. tail \in Seq(Nat)
    <3>1. \A i \in (count + 1)..Len(d.rest) : i \in 1..Len(d.rest)
      BY <1>2
    <3>2. \A i \in (count + 1)..Len(d.rest) : d.rest[i] \in Nat
      BY <1>1, <3>1, ElementOfSeq
    <3>3. count + 1 \in Int /\ Len(d.rest) \in Int
      BY <1>2
    <3> QED BY <3>2, <3>3, SubSeqProperties
  <2>5. more \in Seq(Nat) /\ Len(more) = count /\ \A n \in 1..count : more[n] = L + n - 1
    <3>1. \A n \in 1..count : L + n - 1 \in Nat
      BY <1>2
    <3>2. more \in Seq(Nat)
      BY <3>1, IsASeq
    <3> QED BY <3>2
  <2> HIDE DEF bytes, tail, more
  <2>6. d.block \o bytes \in Seq(Nat) /\ Len(d.block \o bytes) = L + count
    BY <1>1, <2>3, ConcatProperties
  <2>7. /\ d.indices \o more \in Seq(Nat)
        /\ Len(d.indices \o more) = Len(d.indices) + count
        /\ \A i \in 1..(Len(d.indices) + count) :
             (d.indices \o more)[i] = IF i <= Len(d.indices) THEN d.indices[i] ELSE more[i - Len(d.indices)]
    BY <1>1, <2>5, ConcatProperties
  <2>8. Ordered(d.indices \o more, L + count)
    <3> DEFINE M == Len(d.indices)
               s == d.indices \o more
    <3>1. \A i \in 1..M : d.indices[i] \in Nat /\ d.indices[i] < L /\ (i > 1 => d.indices[i - 1] < d.indices[i])
      BY <1>1, ElementOfSeq DEF Sound, Ordered
    <3> HIDE DEF L
    <3>2. \A i \in 1..(M + count) : (i <= M => s[i] = d.indices[i]) /\ (i > M => s[i] = L + (i - M) - 1)
      <4>1. \A i \in 1..(M + count) : i > M => i - M \in 1..count /\ ~(i <= M)
        BY <1>2
      <4> HIDE DEF s, M
      <4> QED BY <2>5, <2>7, <4>1 DEF s, M
    <3> HIDE DEF s, M
    <3>3. ASSUME NEW i \in 1..(M + count)
          PROVE  s[i] < L + count /\ (i > 1 => s[i - 1] < s[i])
      <4>1. M \in Nat /\ (i > 1 => i - 1 \in 1..(M + count))
        BY <1>2 DEF M
      <4>2. CASE i <= M
        <5>1. i \in 1..M /\ (i > 1 => i - 1 \in 1..M /\ i - 1 <= M)
          BY <4>1, <4>2
        <5>2. s[i] = d.indices[i] /\ (i > 1 => s[i - 1] = d.indices[i - 1])
          BY <3>2, <4>1, <5>1, <4>2
        <5> QED BY <3>1, <5>1, <5>2, <1>2
      <4>3. CASE i > M + 1
        <5>1. s[i] = L + (i - M) - 1 /\ s[i - 1] = L + ((i - 1) - M) - 1
          BY <3>2, <4>1, <4>3
        <5> QED BY <5>1, <4>1, <1>2
      <4>4. CASE i = M + 1
        <5>1. s[i] = L
          BY <3>2, <4>1, <4>4, <1>2
        <5>2. L < L + count
          BY <4>1, <4>4, <1>2
        <5>3. i > 1 => i - 1 \in 1..M /\ s[i - 1] = d.indices[i - 1]
          BY <3>2, <4>1, <4>4
        <5> QED BY <3>1, <5>1, <5>2, <5>3
      <4> QED BY <4>1, <4>2, <4>3, <4>4
    <3> QED BY <3>3, <2>7 DEF Ordered, s, M
  <2>9. /\ e \in Decoders /\ e.block = d.block \o bytes /\ e.indices = d.indices \o more /\ e.output = d.output
        /\ e.maximum = d.maximum
    BY <1>1, <2>4, <2>6, <2>7 DEF Decoders
  <2>10. Len(d.indices) + count <= L + count /\ L + count <= BlockSize
    BY <1>2, <2>2, Sizes DEF Sound
  <2>11. Len(d.output) <= d.maximum
    BY DEF Sound
  <2> HIDE DEF e, L
  <2>12. Sound(e)
    BY <2>6, <2>7, <2>8, <2>9, <2>10, <2>11 DEF Sound
  <2> QED BY <2>1, <2>12
<1> QED BY <1>3, <1>4

\* Taking bytes from the stream leaves the block alone.
LEMMA RestSound ==
  ASSUME NEW d, Sound(d), NEW r \in Seq(Nat)
  PROVE  Sound([d EXCEPT !.rest = r]) /\ [d EXCEPT !.rest = r].block = d.block
         /\ [d EXCEPT !.rest = r].indices = d.indices
<1> DEFINE e == [d EXCEPT !.rest = r]
<1>1. /\ e \in Decoders /\ e.block = d.block /\ e.indices = d.indices /\ e.output = d.output
      /\ e.maximum = d.maximum
  BY DEF Sound, Decoders
<1> HIDE DEF e
<1>2. Sound(e)
  BY <1>1 DEF Sound
<1> QED BY <1>1, <1>2 DEF e

\* Literals, with their count in the tag or after it.
LEMMA LiteralsSound ==
  ASSUME NEW d, Sound(d), NEW count \in Nat
  PROVE  Sound(Literals(d, count))
<1> DEFINE n == Number(d.rest)
<1>1. n.ok => n.value \in Nat /\ n.rest \in Seq(Nat)
  <2>1. d.rest \in Seq(Nat)
    BY DEF Sound, Decoders
  <2> QED BY <2>1, NumberTyped
<1> HIDE DEF n
<1>2. CASE count < Short
  BY <1>2, CopyLiteralsSound DEF Literals
<1>3. CASE ~(count < Short) /\ ~n.ok
  BY <1>3, RefuseSound DEF Literals, n, DecoderSound
<1>4. CASE ~(count < Short) /\ n.ok
  <2>1. Literals(d, count) = CopyLiterals([d EXCEPT !.rest = n.rest], n.value)
    BY <1>4 DEF Literals, n
  <2>2. Sound([d EXCEPT !.rest = n.rest])
    BY <1>1, <1>4, RestSound
  <2> QED BY <1>1, <1>4, <2>1, <2>2, CopyLiteralsSound
<1> QED BY <1>2, <1>3, <1>4

\* A reference is one item, and so takes one number.
LEMMA CopyItemSound ==
  ASSUME NEW d, Sound(d), NEW length \in Nat, length > 0, Len(d.block) + length <= BlockSize, NEW source \in Nat
  PROVE  Sound(CopyItem(d, length, source))
<1> DEFINE L == Len(d.block)
           bytes == SubSeq(d.block, source + 1, source + length)
           e == [d EXCEPT !.block = d.block \o bytes, !.indices = Append(d.indices, L)]
<1>1. d \in Decoders /\ d.block \in Seq(Nat) /\ d.indices \in Seq(Nat)
  BY DEF Sound, Decoders
<1>2. L \in Nat /\ Len(d.indices) \in Nat /\ L <= BlockSize
  BY <1>1, LenProperties DEF Sound
<1>3. CASE source > Len(d.block) \/ length > Len(d.block) - source
  BY <1>3, RefuseSound DEF CopyItem, DecoderSound
<1>4. CASE ~(source > Len(d.block) \/ length > Len(d.block) - source)
  <2>1. CopyItem(d, length, source) = e
    BY <1>4 DEF CopyItem
  <2>2. source + length <= L
    BY <1>2, <1>4
  <2>3. bytes \in Seq(Nat) /\ Len(bytes) = length
    <3>1. \A i \in (source + 1)..(source + length) : i \in 1..Len(d.block)
      BY <1>2, <2>2
    <3>2. \A i \in (source + 1)..(source + length) : d.block[i] \in Nat
      BY <1>1, <3>1, ElementOfSeq
    <3>3. source + 1 \in Int /\ source + length \in Int
      OBVIOUS
    <3>4. /\ bytes \in Seq(Nat)
          /\ Len(bytes) = IF source + 1 <= source + length THEN source + length - (source + 1) + 1 ELSE 0
      BY <3>2, <3>3, SubSeqProperties
    <3>5. source + 1 <= source + length /\ source + length - (source + 1) + 1 = length
      OBVIOUS
    <3> QED BY <3>4, <3>5
  <2> HIDE DEF bytes
  <2>4. d.block \o bytes \in Seq(Nat) /\ Len(d.block \o bytes) = L + length
    BY <1>1, <2>3, ConcatProperties
  <2>5. /\ Append(d.indices, L) \in Seq(Nat)
        /\ Len(Append(d.indices, L)) = Len(d.indices) + 1
        /\ \A i \in 1..Len(d.indices) : Append(d.indices, L)[i] = d.indices[i]
        /\ Append(d.indices, L)[Len(d.indices) + 1] = L
    BY <1>1, <1>2, AppendProperties
  <2>6. Ordered(Append(d.indices, L), L + length)
    <3> DEFINE M == Len(d.indices)
               s == Append(d.indices, L)
    <3>1. \A i \in 1..M : d.indices[i] \in Nat /\ d.indices[i] < L /\ (i > 1 => d.indices[i - 1] < d.indices[i])
      BY <1>1, ElementOfSeq DEF Sound, Ordered
    <3>2. M \in Nat /\ \A i \in 1..(M + 1) : i \in 1..M \/ i = M + 1
      BY <1>2
    <3>3. (\A i \in 1..M : s[i] = d.indices[i]) /\ s[M + 1] = L /\ Len(s) = M + 1
      BY <2>5
    <3> HIDE DEF s, M, L
    <3>4. ASSUME NEW i \in 1..(M + 1)
          PROVE  s[i] < L + length /\ (i > 1 => s[i - 1] < s[i])
      <4>1. i > 1 => i - 1 \in 1..M
        BY <3>2
      <4>2. CASE i \in 1..M
        <5>1. s[i] = d.indices[i] /\ (i > 1 => s[i - 1] = d.indices[i - 1])
          BY <3>3, <4>1, <4>2
        <5> QED BY <3>1, <4>2, <5>1, <1>2
      <4>3. CASE i = M + 1
        <5>1. s[i] = L /\ (i > 1 => s[i - 1] = d.indices[i - 1] /\ d.indices[i - 1] < L)
          BY <3>1, <3>3, <4>1, <4>3
        <5> QED BY <5>1, <1>2
      <4> QED BY <3>2, <4>2, <4>3
    <3> QED BY <3>3, <3>4 DEF Ordered, s, M
  <2>7. /\ e \in Decoders /\ e.block = d.block \o bytes /\ e.indices = Append(d.indices, L) /\ e.output = d.output
        /\ e.maximum = d.maximum
    BY <1>1, <2>4, <2>5 DEF Decoders
  <2>8. Len(d.indices) + 1 <= L + length /\ L + length <= BlockSize
    BY <1>2 DEF Sound
  <2>9. Len(d.output) <= d.maximum
    BY DEF Sound
  <2> HIDE DEF e, L
  <2>10. Sound(e)
    BY <2>4, <2>5, <2>6, <2>7, <2>8, <2>9 DEF Sound
  <2> QED BY <2>1, <2>10
<1> QED BY <1>3, <1>4

\* A run is checked against the block before its source is looked up.
LEMMA CopyRunSound ==
  ASSUME NEW d, Sound(d), NEW count \in Nat
  PROVE  Sound(CopyRun(d, count))
<1> DEFINE n == Number(d.rest)
           e == [d EXCEPT !.rest = n.rest]
           source == d.indices[Len(d.indices) - n.value + 1]
<1>1. d.rest \in Seq(Nat) /\ d.indices \in Seq(Nat) /\ d.block \in Seq(Nat)
  BY DEF Sound, Decoders
<1>2. n.ok => n.value \in Nat /\ n.rest \in Seq(Nat)
  BY <1>1, NumberTyped
<1> HIDE DEF n
<1>3. CASE count = 0 \/ count + MinMatch - 1 > BlockSize - Len(d.block)
  BY <1>3, RefuseSound DEF CopyRun, DecoderSound
<1>4. CASE ~(count = 0 \/ count + MinMatch - 1 > BlockSize - Len(d.block))
  <2>1. CASE ~n.ok \/ n.value = 0 \/ n.value > Len(d.indices)
    BY <1>4, <2>1, RefuseSound DEF CopyRun, DecoderSound, n
  <2>2. CASE ~(~n.ok \/ n.value = 0 \/ n.value > Len(d.indices))
    <3>1. CopyRun(d, count) = CopyItem(e, count + MinMatch - 1, source)
      BY <1>4, <2>2 DEF CopyRun, n
    <3>2. Len(d.indices) \in Nat /\ Len(d.block) \in Nat
      BY <1>1, LenProperties
    <3>3. source \in Nat
      <4>1. Len(d.indices) - n.value + 1 \in 1..Len(d.indices)
        BY <1>2, <2>2, <3>2
      <4> QED BY <1>1, <4>1, ElementOfSeq
    <3>4. Sound(e) /\ e.block = d.block
      BY <1>2, <2>2, RestSound
    <3>5. /\ count + MinMatch - 1 \in Nat /\ count + MinMatch - 1 > 0
          /\ Len(d.block) + (count + MinMatch - 1) <= BlockSize
      <4>1. \A x, l, b \in Nat : ~(x > b - l) => l + x <= b
        OBVIOUS
      <4>2. count + MinMatch - 1 \in Nat /\ count + MinMatch - 1 > 0
        BY Sizes
      <4> QED BY <1>4, <3>2, <4>1, <4>2, Sizes
    <3> HIDE DEF e, source
    <3> QED BY <3>1, <3>3, <3>4, <3>5, CopyItemSound
  <2> QED BY <2>1, <2>2
<1> QED BY <1>3, <1>4

\* A reference, with its length in the tag or after it.
LEMMA ReferenceSound ==
  ASSUME NEW d, Sound(d), NEW count \in Nat
  PROVE  Sound(Reference(d, count))
<1> DEFINE n == Number(d.rest)
<1>1. n.ok => n.value \in Nat /\ n.rest \in Seq(Nat)
  <2>1. d.rest \in Seq(Nat)
    BY DEF Sound, Decoders
  <2> QED BY <2>1, NumberTyped
<1> HIDE DEF n
<1>2. CASE d.status = "refused" \/ count = 0
  BY <1>2 DEF Reference
<1>3. CASE ~(d.status = "refused" \/ count = 0) /\ count < Short
  BY <1>3, CopyRunSound DEF Reference
<1>4. CASE ~(d.status = "refused" \/ count = 0) /\ ~(count < Short) /\ ~n.ok
  BY <1>4, RefuseSound DEF Reference, n, DecoderSound
<1>5. CASE ~(d.status = "refused" \/ count = 0) /\ ~(count < Short) /\ n.ok
  <2>1. Reference(d, count) = CopyRun([d EXCEPT !.rest = n.rest], n.value)
    BY <1>5 DEF Reference, n
  <2>2. Sound([d EXCEPT !.rest = n.rest])
    BY <1>1, <1>5, RestSound
  <2> QED BY <1>1, <1>5, <2>1, <2>2, CopyRunSound
<1> QED BY <1>2, <1>3, <1>4, <1>5

\* A full block leaves room for the next.
LEMMA RollSound ==
  ASSUME NEW d, Sound(d)
  PROVE  DecoderSound(Roll(d))
<1> DEFINE a == AppendBlock(d)
           e == [a EXCEPT !.checksum = Hash(d.block, a.checksum), !.block = <<>>, !.indices = <<>>]
<1>1. d.block \in Seq(Nat) /\ Len(d.block) \in Nat /\ Len(d.block) <= BlockSize
  BY LenProperties DEF Sound, Decoders
<1>2. Sound(a)
  BY AppendBlockSound
<1> HIDE DEF a
<1>3. CASE d.status = "refused" \/ Len(d.block) # BlockSize
  <2>1. d.status = "refused" \/ Len(d.block) < BlockSize
    BY <1>1, <1>3, Sizes
  <2> QED BY <1>3, <2>1 DEF Roll, DecoderSound
<1>4. CASE ~(d.status = "refused" \/ Len(d.block) # BlockSize) /\ a.status = "refused"
  BY <1>2, <1>4 DEF Roll, DecoderSound, a
<1>5. CASE ~(d.status = "refused" \/ Len(d.block) # BlockSize) /\ a.status # "refused"
  <2>1. Roll(d) = e
    BY <1>5 DEF Roll, a
  <2>2. a \in Decoders /\ a.checksum \in Nat
    BY <1>2 DEF Sound, Decoders
  <2>3. Hash(d.block, a.checksum) \in Nat
    BY <1>1, <2>2, HashNatural
  <2>4. e \in Decoders /\ e.block = <<>> /\ e.indices = <<>> /\ e.output = a.output /\ e.maximum = a.maximum
    BY <2>2, <2>3, EmptySeq DEF Decoders
  <2>5. Len(a.output) <= a.maximum
    BY <1>2 DEF Sound
  <2>6. Len(<<>>) = 0 /\ Ordered(<<>>, 0)
    BY EmptySeq DEF Ordered
  <2> HIDE DEF e
  <2>7. Sound(e)
    BY <2>4, <2>5, <2>6, Sizes DEF Sound
  <2>8. Len(e.block) < BlockSize
    BY <2>4, <2>6, Sizes
  <2> QED BY <2>1, <2>7, <2>8 DEF DecoderSound
<1> QED BY <1>3, <1>4, <1>5

\* A whole tag.
LEMMA DecodeTagSound ==
  ASSUME NEW d, Sound(d), NEW tag \in Nat
  PROVE  DecoderSound(DecodeTag(d, tag))
<1>1. tag \div 2 ^ Half \in Nat /\ tag % 2 ^ Half \in Nat
  <2>1. tag \div 2 ^ Half \in Nat /\ tag % 2 ^ Half \in 0..(2 ^ Half - 1)
    BY Sizes, Division
  <2> QED BY <2>1, Sizes
<1>2. Sound(Literals(d, tag \div 2 ^ Half))
  BY <1>1, LiteralsSound
<1>3. Sound(Reference(Literals(d, tag \div 2 ^ Half), tag % 2 ^ Half))
  BY <1>1, <1>2, ReferenceSound
<1> QED BY <1>3, RollSound DEF DecodeTag

\* The end of the stream.
LEMMA CloseSound ==
  ASSUME NEW d, DecoderSound(d)
  PROVE  DecoderSound(Close(d))
<1> DEFINE a == AppendBlock(d)
           e == [a EXCEPT !.status = "done"]
           wrong == \/ Len(d.rest) # 1
                    \/ Head(d.rest) # (IF d.block = <<>> THEN d.checksum ELSE Hash(d.block, d.checksum))
<1>1. Sound(d)
  BY DEF DecoderSound
<1>2. Sound(a) /\ a.block = d.block /\ a.status \in {d.status, "refused"}
  BY <1>1, AppendBlockSound
<1>3. Close(d) = IF wrong THEN Refuse(d) ELSE IF a.status = "refused" THEN a ELSE e
  BY Zenon DEF Close
<1> HIDE DEF a, wrong
<1>4. CASE wrong
  BY <1>1, <1>3, <1>4, RefuseSound
<1>5. CASE ~wrong /\ a.status = "refused"
  BY <1>2, <1>3, <1>5 DEF DecoderSound
<1>6. CASE ~wrong /\ a.status # "refused"
  <2>1. /\ e \in Decoders /\ e.block = a.block /\ e.indices = a.indices /\ e.output = a.output
        /\ e.maximum = a.maximum
    BY <1>2 DEF Sound, Decoders
  <2>2. Len(a.block) < BlockSize
    BY <1>2, <1>6 DEF DecoderSound
  <2>3. Close(d) = e
    BY <1>3, <1>6
  <2> HIDE DEF e
  <2>4. Sound(e)
    BY <1>2, <2>1 DEF Sound
  <2> QED BY <2>1, <2>2, <2>3, <2>4 DEF DecoderSound
<1> QED BY <1>4, <1>5, <1>6

-----------------------------------------------------------------------------
(* Every action keeps the compressor and the decompressor sound. *)

\* The inductive invariant.
CompressionInv == EncoderSound /\ DecoderSound(decoder)

\* A new decompressor.
LEMMA FreshSound ==
  ASSUME NEW bytes \in Seq(Nat), NEW maximum \in Nat
  PROVE  DecoderSound(Fresh(bytes, maximum))
<1> DEFINE e == Fresh(bytes, maximum)
<1>1. Seed \in Nat
  <2>1. 2 % HashRange \in 0..(HashRange - 1)
    BY Sizes, Division
  <2> QED BY <2>1, Sizes DEF Seed
<1>2. /\ e \in Decoders /\ e.block = <<>> /\ e.indices = <<>> /\ e.output = <<>> /\ e.maximum = maximum
  BY <1>1, EmptySeq DEF Fresh, Decoders
<1>3. Len(<<>>) = 0 /\ Ordered(<<>>, 0)
  BY EmptySeq DEF Ordered
<1> HIDE DEF e
<1>4. Sound(e)
  BY <1>2, <1>3, Sizes DEF Sound
<1> QED BY <1>2, <1>3, <1>4, Sizes DEF DecoderSound, e

\* The start.
LEMMA InitSound ==
  ASSUME Init
  PROVE  CompressionInv
<1>1. input \in Seq(Nat) /\ rest = input
  BY InputAssumption DEF Init
<1>2. Seed \in Nat
  <2>1. 2 % HashRange \in 0..(HashRange - 1)
    BY Sizes, Division
  <2> QED BY <2>1, Sizes DEF Seed
<1>3. <<>> \in Seq(Nat) /\ <<>> \in Seq(EntriesBefore(0, 0)) /\ Len(<<>>) = 0
  BY EmptySeq
<1>4. EncoderSound
  BY <1>1, <1>2, <1>3, Sizes DEF Init, EncoderSound
<1>5. DecoderSound(decoder)
  BY <1>3, FreshSound DEF Init
<1> QED BY <1>4, <1>5 DEF CompressionInv

\* A new block has no match before its start.
LEMMA NextBlockSound ==
  ASSUME CompressionInv, NextBlock
  PROVE  CompressionInv'
<1> DEFINE size == Min({BlockSize, Len(rest)})
<1>1. EncoderSound /\ DecoderSound(decoder)
  BY DEF CompressionInv
<1>2. rest \in Seq(Nat) /\ Len(rest) \in Nat
  BY <1>1, LenProperties DEF EncoderSound
<1>3. size \in Nat /\ size <= BlockSize /\ size <= Len(rest)
  BY <1>2, Sizes, MinOfTwo
<1> HIDE DEF size
<1>4. SubSeq(rest, 1, size) \in Seq(Nat) /\ Len(SubSeq(rest, 1, size)) = size
  <2>1. \A i \in 1..size : i \in 1..Len(rest)
    BY <1>2, <1>3
  <2>2. \A i \in 1..size : rest[i] \in Nat
    BY <1>2, <2>1, ElementOfSeq
  <2>3. /\ SubSeq(rest, 1, size) \in Seq(Nat)
        /\ Len(SubSeq(rest, 1, size)) = IF 1 <= size THEN size - 1 + 1 ELSE 0
    BY <1>3, <2>2, SubSeqProperties
  <2> QED BY <1>3, <2>3
<1>5. SubSeq(rest, size + 1, Len(rest)) \in Seq(Nat)
  <2>1. \A i \in (size + 1)..Len(rest) : i \in 1..Len(rest)
    BY <1>2, <1>3
  <2>2. \A i \in (size + 1)..Len(rest) : rest[i] \in Nat
    BY <1>2, <2>1, ElementOfSeq
  <2>3. size + 1 \in Int /\ Len(rest) \in Int
    BY <1>2, <1>3
  <2> QED BY <2>2, <2>3, SubSeqProperties
<1>6. Hash(SubSeq(rest, 1, size), checksum) \in Nat
  BY <1>1, <1>4, HashNatural DEF EncoderSound
<1>7. <<>> \in Seq(EntriesBefore(0, 0)) /\ Len(<<>>) = 0
  BY EmptySeq
<1>8. /\ block' = SubSeq(rest, 1, size) /\ rest' = SubSeq(rest, size + 1, Len(rest))
      /\ checksum' = Hash(SubSeq(rest, 1, size), checksum)
      /\ phase = "blocks" /\ phase' = "encode" /\ position' = 0 /\ number' = 0
      /\ chains' = [k \in 0..(TableSize - 1) |-> <<>>] /\ free' = TableSize
      /\ input' = input /\ stream' = stream /\ literal' = literal /\ decoder' = decoder
  BY DEF NextBlock, size
<1>9. literal = <<>>
  BY <1>1, <1>8 DEF EncoderSound
<1>10. EncoderSound'
  <2>1. input' \in Seq(Nat) /\ stream' \in Seq(Nat) /\ literal' \in Seq(Nat) /\ literal' = <<>>
    BY <1>1, <1>8, <1>9 DEF EncoderSound
  <2>2. rest' \in Seq(Nat) /\ block' \in Seq(Nat) /\ checksum' \in Nat
    BY <1>4, <1>5, <1>6, <1>8
  <2>3. Len(block') \in Nat /\ Len(block') <= BlockSize
    BY <1>3, <1>4, <1>8
  <2>4. position' \in 0..Len(block') /\ number' \in 0..position'
    <3>1. \A n \in Nat : 0 \in 0..n
      OBVIOUS
    <3>2. position' = 0 /\ number' = 0
      BY <1>8
    <3> QED BY <2>3, <3>1, <3>2
  <2>5. Len(literal') <= position'
    BY <1>7, <1>8, <2>1
  <2>6. chains' \in [0..(TableSize - 1) -> Seq(EntriesBefore(position', number'))]
    BY <1>7, <1>8
  <2>7. free' \in Nat
    BY <1>8, Sizes
  <2> QED BY <2>1, <2>2, <2>3, <2>4, <2>5, <2>6, <2>7 DEF EncoderSound
<1> QED BY <1>1, <1>8, <1>10 DEF CompressionInv

\* A literal is pending or begins a new run of them.
LEMMA EncodeLiteralSound ==
  ASSUME CompressionInv, EncodeLiteral
  PROVE  CompressionInv'
<1>1. EncoderSound /\ DecoderSound(decoder)
  BY DEF CompressionInv
<1>2. /\ stream \in Seq(Nat) /\ literal \in Seq(Nat) /\ block \in Seq(Nat) /\ Len(block) \in Nat
      /\ Len(literal) \in Nat /\ Len(literal) <= position /\ position \in Nat /\ position < Len(block)
      /\ number \in Nat /\ number <= position /\ Len(block) <= BlockSize
  BY <1>1, LenProperties DEF EncoderSound, EncodeLiteral
<1>3. /\ phase' = "encode" /\ position' = position + 1 /\ Insert
      /\ input' = input /\ rest' = rest /\ block' = block /\ checksum' = checksum /\ decoder' = decoder
  BY DEF EncodeLiteral
<1>4. number' = number + 1 /\ free' \in Nat
      /\ chains' \in [0..(TableSize - 1) -> Seq(EntriesBefore(position', number'))]
  <2>1. position' \in Nat /\ position < position'
    BY <1>2, <1>3
  <2> QED BY <1>1, <1>2, <1>3, <2>1, InsertSound
<1>5. block[position + 1] \in Nat
  <2>1. position + 1 \in 1..Len(block)
    BY <1>2
  <2> QED BY <1>2, <2>1, ElementOfSeq
<1>6. stream' \in Seq(Nat) /\ literal' \in Seq(Nat) /\ Len(literal') <= position + 1
  <2>1. CASE Len(literal) = MaxLiterals
    <3>1. Flushed(0) \in Seq(Nat)
      <4>1. Len(literal) <= BlockSize
        BY <1>2, Sizes
      <4> QED BY <1>2, <4>1, FlushedTyped
    <3>2. stream \o Flushed(0) \in Seq(Nat)
      BY <1>2, <3>1, ConcatProperties
    <3>3. stream' = stream \o Flushed(0) /\ literal' = <<block[position + 1]>>
      BY <2>1 DEF EncodeLiteral
    <3>4. <<block[position + 1]>> \in Seq(Nat) /\ Len(<<block[position + 1]>>) = 1
      BY <1>5
    <3> QED BY <1>2, <3>2, <3>3, <3>4
  <2>2. CASE Len(literal) # MaxLiterals
    <3>1. literal' = Append(literal, block[position + 1]) /\ stream' = stream
      BY <2>2 DEF EncodeLiteral
    <3>2. /\ Append(literal, block[position + 1]) \in Seq(Nat)
          /\ Len(Append(literal, block[position + 1])) = Len(literal) + 1
      BY <1>2, <1>5, AppendProperties
    <3> QED BY <1>2, <3>1, <3>2
  <2> QED BY <2>1, <2>2
<1>7. position' \in 0..Len(block') /\ number' \in 0..position'
  BY <1>2, <1>3, <1>4
<1>8. EncoderSound'
  <2>1. literal' \in Seq(Nat) /\ Len(literal') <= position'
    BY <1>3, <1>6
  <2>2. input' \in Seq(Nat) /\ rest' \in Seq(Nat) /\ block' \in Seq(Nat) /\ Len(block') <= BlockSize /\ checksum' \in Nat
    BY <1>1, <1>3 DEF EncoderSound
  <2>3. phase' # "blocks"
    BY <1>3
  <2>4. stream' \in Seq(Nat)
    BY <1>6
  <2>5. position' \in 0..Len(block') /\ number' \in 0..position'
    BY <1>7
  <2>6. free' \in Nat /\ chains' \in [0..(TableSize - 1) -> Seq(EntriesBefore(position', number'))]
    BY <1>4
  <2>7. phase' = "blocks" => literal' = <<>>
    BY <2>3
  <2> QED BY <2>1, <2>2, <2>4, <2>5, <2>6, <2>7 DEF EncoderSound
<1> QED BY <1>1, <1>3, <1>8 DEF CompressionInv

\* A match ends inside the block, so its length and distance are numbers.
LEMMA EncodeReferenceSound ==
  ASSUME CompressionInv, EncodeReference
  PROVE  CompressionInv'
<1> DEFINE best == BestMatch
           length == best.length - MinMatch + 1
           long == IF length >= Short THEN Integer(length) ELSE <<>>
<1>1. EncoderSound /\ DecoderSound(decoder)
  BY DEF CompressionInv
<1>2. /\ stream \in Seq(Nat) /\ literal \in Seq(Nat) /\ Len(block) \in Nat
      /\ Len(literal) \in Nat /\ Len(literal) <= position /\ position \in Nat /\ position < Len(block)
      /\ number \in Nat /\ number <= position /\ Len(block) <= BlockSize
  BY <1>1, LenProperties DEF EncoderSound, EncodeReference
<1>3. best.length \in MinMatch..(Len(block) - position) /\ best.number \in 0..(number - 1)
  <2>1. best \in Matches /\ best # None
    BY <1>1, BestMatchTyped DEF EncodeReference
  <2> HIDE DEF best
  <2> QED BY <2>1 DEF Matches
<1>4. /\ phase' = "encode" /\ position' = position + best.length /\ Insert /\ literal' = <<>>
      /\ stream' = stream \o Flushed(Min({length, Short})) \o long \o Integer(number - best.number)
      /\ input' = input /\ rest' = rest /\ block' = block /\ checksum' = checksum /\ decoder' = decoder
  BY DEF EncodeReference
<1> HIDE DEF best
<1>5. length \in 0..BlockSize /\ number - best.number \in 0..BlockSize
  <2>1. \A b, m, l, p, s \in Nat : m > 1 /\ l <= s /\ b \in m..(l - p) => b - m + 1 \in 0..s
    OBVIOUS
  <2>2. \A n, m, p, l, s \in Nat : n \in 0..(m - 1) /\ m <= p /\ p < l /\ l <= s => m - n \in 0..s
    OBVIOUS
  <2>3. best.length \in Nat /\ best.number \in Nat
    BY <1>2, <1>3, Sizes
  <2>4. length \in 0..BlockSize
    BY <1>2, <1>3, <2>1, <2>3, Sizes
  <2>5. number - best.number \in 0..BlockSize
    BY <1>2, <1>3, <2>2, <2>3, Sizes
  <2> QED BY <2>4, <2>5
<1>6. Flushed(Min({length, Short})) \in Seq(Nat)
  <2>1. length \in Nat
    BY <1>5, Sizes
  <2>2. Min({length, Short}) \in Nat
    <3> HIDE DEF length
    <3> QED BY <2>1, Sizes, MinOfTwo
  <2>3. Len(literal) <= BlockSize
    BY <1>2, Sizes
  <2> QED BY <1>2, <2>2, <2>3, FlushedTyped
<1>7. long \in Seq(Nat) /\ Integer(number - best.number) \in Seq(Nat)
  <2>1. Integer(length) \in Seq(Nat) /\ Integer(number - best.number) \in Seq(Nat)
    <3> HIDE DEF length
    <3> QED BY <1>5, IntegerTyped
  <2> HIDE DEF length
  <2> QED BY <2>1, EmptySeq
<1>8. stream' \in Seq(Nat)
  <2> HIDE DEF length, long
  <2>1. stream \o Flushed(Min({length, Short})) \in Seq(Nat)
    BY <1>2, <1>6, ConcatProperties
  <2>2. stream \o Flushed(Min({length, Short})) \o long \in Seq(Nat)
    BY <1>7, <2>1, ConcatProperties
  <2>3. stream \o Flushed(Min({length, Short})) \o long \o Integer(number - best.number) \in Seq(Nat)
    BY <1>7, <2>2, ConcatProperties
  <2> QED BY <1>4, <2>3
<1>9. position' \in Nat /\ position < position' /\ position' <= Len(block)
  BY <1>2, <1>3, <1>4, Sizes
<1>10. number' = number + 1 /\ free' \in Nat
       /\ chains' \in [0..(TableSize - 1) -> Seq(EntriesBefore(position', number'))]
  BY <1>1, <1>2, <1>4, <1>9, InsertSound
<1>11. position' \in 0..Len(block') /\ number' \in 0..position'
  BY <1>2, <1>4, <1>9, <1>10
<1>12. literal' \in Seq(Nat) /\ Len(literal') <= position'
  <2>1. <<>> \in Seq(Nat) /\ Len(<<>>) = 0
    BY EmptySeq
  <2> QED BY <1>4, <1>9, <2>1
<1>13. EncoderSound'
  BY <1>1, <1>4, <1>8, <1>10, <1>11, <1>12 DEF EncoderSound
<1> QED BY <1>1, <1>4, <1>13 DEF CompressionInv

\* The end of a block leaves nothing pending.
LEMMA EndBlockSound ==
  ASSUME CompressionInv, EndBlock
  PROVE  CompressionInv'
<1>1. EncoderSound /\ DecoderSound(decoder)
  BY DEF CompressionInv
<1>2. stream \in Seq(Nat) /\ literal \in Seq(Nat) /\ Len(literal) <= BlockSize
  <2>1. /\ stream \in Seq(Nat) /\ literal \in Seq(Nat) /\ Len(literal) \in Nat /\ Len(block) \in Nat
        /\ position \in 0..Len(block) /\ Len(literal) <= position /\ Len(block) <= BlockSize
    BY <1>1, LenProperties DEF EncoderSound
  <2> QED BY <2>1, Sizes
<1>3. Flushed(0) \in Seq(Nat)
  BY <1>2, FlushedTyped
<1>4. stream \o Flushed(0) \in Seq(Nat)
  BY <1>2, <1>3, ConcatProperties
<1>5. <<>> \in Seq(Nat) /\ Len(<<>>) = 0
  BY EmptySeq
<1>6. position \in 0..Len(block) /\ 0 <= position
  BY <1>1, LenProperties DEF EncoderSound
<1>7. /\ stream' = stream \o Flushed(0) /\ literal' = <<>>
      /\ UNCHANGED <<input, rest, block, position, number, chains, free, checksum, decoder>>
  BY DEF EndBlock
<1>8. EncoderSound'
  BY <1>1, <1>4, <1>5, <1>6, <1>7 DEF EncoderSound
<1> QED BY <1>1, <1>7, <1>8 DEF CompressionInv

\* The end of the stream is its checksum.
LEMMA FinishSound ==
  ASSUME CompressionInv, Finish
  PROVE  CompressionInv'
<1>1. EncoderSound /\ DecoderSound(decoder)
  BY DEF CompressionInv
<1>2. stream \o <<0, checksum>> \in Seq(Nat)
  <2>1. <<0, checksum>> \in Seq(Nat) /\ stream \in Seq(Nat)
    BY <1>1 DEF EncoderSound
  <2> QED BY <2>1, ConcatProperties
<1>3. /\ stream' = stream \o <<0, checksum>> /\ phase' = "written"
      /\ UNCHANGED <<input, rest, block, position, number, literal, chains, free, checksum, decoder>>
  BY DEF Finish
<1>4. EncoderSound'
  BY <1>1, <1>2, <1>3 DEF EncoderSound
<1> QED BY <1>1, <1>3, <1>4 DEF CompressionInv

\* Decompression starts on the whole stream.
LEMMA DecompressSound ==
  ASSUME CompressionInv, Decompress
  PROVE  CompressionInv'
<1>1. EncoderSound
  BY DEF CompressionInv
<1>2. PICK cut \in Limits : cut <= Len(input) /\ decoder' = Fresh(stream, Len(input) - cut)
  BY DEF Decompress
<1>3. Len(input) - cut \in Nat
  <2>1. Len(input) \in Nat /\ cut \in Nat
    BY <1>1, LenProperties, InputAssumption DEF EncoderSound
  <2> QED BY <1>2, <2>1
<1>4. DecoderSound(decoder')
  BY <1>1, <1>2, <1>3, FreshSound DEF EncoderSound
<1>5. EncoderSound'
  BY <1>1 DEF EncoderSound, Decompress
<1>6. DecoderSound(decoder)'
  BY <1>4 DEF DecoderSound, Sound, Ordered, Decoders
<1> QED BY <1>5, <1>6 DEF CompressionInv

\* A damaged stream is a stream.
LEMMA DamageSound ==
  ASSUME CompressionInv, Damage
  PROVE  CompressionInv'
<1>1. EncoderSound
  BY DEF CompressionInv
<1>2. stream \in Seq(Nat) /\ Len(stream) \in Nat /\ Len(input) \in Nat
  BY <1>1, LenProperties DEF EncoderSound
<1>3. stream' \in Seq(Nat)
  <2>1. ASSUME NEW i \in 1..Len(stream), NEW b \in Damaged, stream' = [stream EXCEPT ![i] = b]
        PROVE  stream' \in Seq(Nat)
    <3>1. b \in Nat
      BY InputAssumption
    <3> QED BY <1>2, <2>1, <3>1, ExceptSeq
  <2>2. ASSUME NEW i \in 0..(Len(stream) - 1), stream' = SubSeq(stream, 1, i)
        PROVE  stream' \in Seq(Nat)
    <3>1. i \in Int /\ \A n \in 1..i : n \in 1..Len(stream)
      BY <1>2
    <3>2. \A n \in 1..i : stream[n] \in Nat
      BY <1>2, <3>1, ElementOfSeq
    <3>3. SubSeq(stream, 1, i) \in Seq(Nat)
      BY <3>1, <3>2, SubSeqProperties
    <3> QED BY <2>2, <3>3
  <2> QED BY <2>1, <2>2 DEF Damage
<1>4. decoder' = Fresh(stream', Len(input))
  BY DEF Damage
<1>5. DecoderSound(decoder')
  BY <1>2, <1>3, <1>4, FreshSound
<1>6. phase' = "damaged" /\ UNCHANGED <<input, rest, block, position, number, literal, chains, free, checksum>>
  BY DEF Damage
<1>7. EncoderSound'
  BY <1>1, <1>3, <1>6 DEF EncoderSound
<1>8. DecoderSound(decoder)'
  BY <1>5 DEF DecoderSound, Sound, Ordered, Decoders
<1> QED BY <1>7, <1>8 DEF CompressionInv

\* A step of the decompressor.
LEMMA DecodeSound ==
  ASSUME CompressionInv, Decode
  PROVE  CompressionInv'
<1> DEFINE next == [decoder EXCEPT !.rest = Tail(decoder.rest)]
<1>1. EncoderSound /\ DecoderSound(decoder) /\ Sound(decoder)
  BY DEF CompressionInv, DecoderSound
<1>2. decoder.rest \in Seq(Nat)
  BY <1>1 DEF Sound, Decoders
<1>3. ASSUME decoder.rest = <<>>
      PROVE  DecoderSound(decoder')
  <2>1. decoder' = Refuse(decoder)
    BY <1>3 DEF Decode
  <2> QED BY <1>1, <2>1, RefuseSound
<1>4. ASSUME decoder.rest # <<>>
      PROVE  DecoderSound(decoder')
  <2>1. Head(decoder.rest) \in Nat /\ Tail(decoder.rest) \in Seq(Nat)
    BY <1>2, <1>4, HeadTailProperties
  <2>2. Sound(next) /\ next.block = decoder.block
    BY <1>1, <2>1, RestSound
  <2>3. DecoderSound(next)
    <3>1. next.status = decoder.status
      BY <1>1 DEF Sound, Decoders
    <3> HIDE DEF next
    <3> QED BY <1>1, <2>2, <3>1 DEF DecoderSound
  <2>4. decoder' = IF Head(decoder.rest) = 0 THEN Close(next) ELSE DecodeTag(next, Head(decoder.rest))
    BY <1>4 DEF Decode
  <2> HIDE DEF next
  <2> QED BY <2>1, <2>2, <2>3, <2>4, CloseSound, DecodeTagSound
<1>5. DecoderSound(decoder')
  BY <1>3, <1>4
<1>6. DecoderSound(decoder)'
  BY <1>5 DEF DecoderSound, Sound, Ordered, Decoders
<1>7. EncoderSound'
  BY <1>1 DEF EncoderSound, Decode
<1> QED BY <1>6, <1>7 DEF CompressionInv

\* The invariant of every step.
LEMMA StepSound == CompressionInv /\ [Next]_vars => CompressionInv'
<1> SUFFICES ASSUME CompressionInv, [Next]_vars
             PROVE  CompressionInv'
  OBVIOUS
<1>1. CASE NextBlock
  BY <1>1, NextBlockSound
<1>2. CASE EncodeLiteral
  BY <1>2, EncodeLiteralSound
<1>3. CASE EncodeReference
  BY <1>3, EncodeReferenceSound
<1>4. CASE EndBlock
  BY <1>4, EndBlockSound
<1>5. CASE Finish
  BY <1>5, FinishSound
<1>6. CASE Decompress
  BY <1>6, DecompressSound
<1>7. CASE Damage
  BY <1>7, DamageSound
<1>8. CASE Decode
  BY <1>8, DecodeSound
<1>9. CASE UNCHANGED vars
  <2>1. EncoderSound'
    BY <1>9 DEF vars, CompressionInv, EncoderSound
  <2>2. DecoderSound(decoder)'
    <3>1. DecoderSound(decoder) /\ decoder' = decoder
      BY <1>9 DEF vars, CompressionInv
    <3> QED BY <3>1 DEF DecoderSound, Sound, Ordered, Decoders
  <2> QED BY <2>1, <2>2 DEF CompressionInv
<1> QED BY <1>1, <1>2, <1>3, <1>4, <1>5, <1>6, <1>7, <1>8, <1>9 DEF Next

\* The compressor never writes what is not a byte stream of numbers, and the
\* decompressor is sound in every state.
THEOREM CompressionHolds == Spec => []CompressionInv
<1>1. Init => CompressionInv
  BY InitSound
<1> QED BY <1>1, StepSound, PTL DEF Spec

\* Whatever the bytes of a stream are, the decompressor stays inside its
\* block, its table of item positions and the caller's limit, and its items
\* are numbered in the order of their positions (Decompressor::run).
THEOREM StaysBounded == Spec => []DecoderBounded
<1>1. CompressionInv => DecoderBounded
  <2>1. SUFFICES ASSUME CompressionInv PROVE DecoderBounded
    OBVIOUS
  <2> QED BY <2>1 DEF CompressionInv, DecoderSound, Sound, Ordered, DecoderBounded
<1> QED BY <1>1, CompressionHolds, PTL

\* A set of the first a + b numbers is one of the first a and one of the next b.
LEMMA PowerOfSum ==
  ASSUME NEW a \in Nat, NEW b \in Nat
  PROVE  2 ^ (a + b) = 2 ^ a * 2 ^ b
<1> DEFINE A == SUBSET (1..a)
           B == SUBSET (1..b)
           C == SUBSET (1..(a + b))
           Joined(X, Y) == X \cup {a + y : y \in Y}
           f == [p \in A \X B |-> Joined(p[1], p[2])]
<1>1. \A n \in Nat : IsFiniteSet(SUBSET (1..n)) /\ Cardinality(SUBSET (1..n)) = 2 ^ n
  <2> TAKE n \in Nat
  <2>1. IsFiniteSet(1..n) /\ Cardinality(1..n) = n
    <3>1. 1 \in Int /\ n \in Int
      OBVIOUS
    <3>2. IsFiniteSet(1..n) /\ Cardinality(1..n) = IF 1 > n THEN 0 ELSE n - 1 + 1
      BY <3>1, FS_Interval
    <3> QED BY <3>2
  <2> QED BY <2>1, FS_SUBSET
<1>2. ASSUME NEW X \in A, NEW Y \in B
      PROVE  /\ Joined(X, Y) \in C
             /\ X = Joined(X, Y) \cap (1..a)
             /\ Y = {y \in 1..b : a + y \in Joined(X, Y)}
  <2>1. \A y \in Y : a + y \in 1..(a + b) /\ a + y \notin 1..a
    OBVIOUS
  <2>2. \A x \in X : x \in 1..a /\ x \in 1..(a + b)
    OBVIOUS
  <2>3. Joined(X, Y) \in C
    BY <2>1, <2>2
  <2>4. X = Joined(X, Y) \cap (1..a)
    BY <2>1, <2>2
  <2>5. ASSUME NEW y \in 1..b
        PROVE  a + y \in Joined(X, Y) <=> y \in Y
    <3>1. a + y \notin X
      BY <2>2
    <3>2. \A z \in Y : a + z = a + y => z = y
      OBVIOUS
    <3> QED BY <3>1, <3>2
  <2>6. Y = {y \in 1..b : a + y \in Joined(X, Y)}
    <3> HIDE DEF Joined
    <3> QED BY <2>5
  <2> QED BY <2>3, <2>4, <2>6
<1>3. f \in [A \X B -> C]
  <2> HIDE DEF A, B, C, Joined
  <2> QED BY <1>2
<1>4. \A p, q \in A \X B : f[p] = f[q] => p = q
  <2> SUFFICES ASSUME NEW p \in A \X B, NEW q \in A \X B, f[p] = f[q]
               PROVE  p = q
    OBVIOUS
  <2>1. p[1] \in A /\ p[2] \in B /\ q[1] \in A /\ q[2] \in B /\ p = <<p[1], p[2]>> /\ q = <<q[1], q[2]>>
    OBVIOUS
  <2>2. Joined(p[1], p[2]) = Joined(q[1], q[2])
    <3> HIDE DEF A, B, Joined
    <3> QED OBVIOUS
  <2> HIDE DEF Joined, A, B, f
  <2>3. p[1] = q[1]
    <3>1. p[1] = Joined(p[1], p[2]) \cap (1..a) /\ q[1] = Joined(q[1], q[2]) \cap (1..a)
      BY <1>2, <2>1
    <3> QED BY <2>2, <3>1
  <2>4. p[2] = q[2]
    <3>1. /\ p[2] = {y \in 1..b : a + y \in Joined(p[1], p[2])}
          /\ q[2] = {y \in 1..b : a + y \in Joined(q[1], q[2])}
      BY <1>2, <2>1
    <3> QED BY <2>2, <3>1
  <2> QED BY <2>1, <2>3, <2>4
<1>5. \A t \in C : \E p \in A \X B : f[p] = t
  <2> TAKE t \in C
  <2> DEFINE X == t \cap (1..a)
             Y == {y \in 1..b : a + y \in t}
  <2>1. <<X, Y>> \in A \X B
    OBVIOUS
  <2>2. Joined(X, Y) = t
    <3>1. ASSUME NEW n \in t
          PROVE  n \in 1..a \/ (n - a \in 1..b /\ a + (n - a) = n)
      OBVIOUS
    <3>2. t \subseteq Joined(X, Y)
      BY <3>1
    <3>3. Joined(X, Y) \subseteq t
      OBVIOUS
    <3> QED BY <3>2, <3>3
  <2>3. f[<<X, Y>>] = Joined(X, Y)
    <3> HIDE DEF A, B, Joined, X, Y
    <3> QED BY <2>1
  <2> QED BY <2>1, <2>2, <2>3
<1> HIDE DEF A, B, C, f
<1>6. f \in Bijection(A \X B, C)
  BY <1>3, <1>4, <1>5, Fun_IsBij
<1>7. ExistsBijection(A \X B, C)
  BY <1>6, Fun_ExistsBij
<1>8. IsFiniteSet(A) /\ IsFiniteSet(B) /\ Cardinality(A) = 2 ^ a /\ Cardinality(B) = 2 ^ b
  BY <1>1 DEF A, B
<1>9. IsFiniteSet(A \X B) /\ Cardinality(A \X B) = 2 ^ a * 2 ^ b
  BY <1>8, FS_Product
<1>10. Cardinality(C) = 2 ^ (a + b)
  <2>1. a + b \in Nat
    OBVIOUS
  <2> QED BY <1>1, <2>1 DEF C
<1>11. Cardinality(C) = Cardinality(A \X B)
  BY <1>7, <1>9, FS_Bijection
<1> QED BY <1>9, <1>10, <1>11

\* A quotient and a remainder below the divisor are the only ones.
LEMMA DivisionUnique ==
  ASSUME NEW a \in Nat, NEW b \in Nat, NEW q \in Nat, NEW r \in Nat, r < b, a = b * q + r
  PROVE  a \div b = q /\ a % b = r
<1> DEFINE d == a \div b
           m == a % b
<1>1. b > 0
  OBVIOUS
<1>2. d \in Nat /\ m \in Nat /\ m < b /\ a = b * d + m
  BY <1>1
<1> HIDE DEF d, m
<1>3. CASE d > q
  <2>1. PICK e \in Nat : d = q + 1 + e
    <3>1. d - q - 1 \in Nat /\ d = q + 1 + (d - q - 1)
      BY <1>2, <1>3
    <3> QED BY <3>1
  <2>2. b * d = b * q + b + b * e /\ b * e \in Nat /\ b * q \in Nat
    BY <2>1
  <2> QED BY <1>2, <2>2
<1>4. CASE d < q
  <2>1. PICK e \in Nat : q = d + 1 + e
    <3>1. q - d - 1 \in Nat /\ q = d + 1 + (q - d - 1)
      BY <1>2, <1>4
    <3> QED BY <3>1
  <2>2. b * q = b * d + b + b * e /\ b * e \in Nat /\ b * d \in Nat
    BY <1>2, <2>1
  <2> QED BY <1>2, <2>2
<1>5. CASE d = q
  <2>1. b * d = b * q /\ b * q \in Nat
    BY <1>5
  <2>2. m = r
    BY <1>2, <2>1
  <2> QED BY <1>5, <2>2 DEF d, m
<1> QED BY <1>2, <1>3, <1>4, <1>5

\* Dividing twice is dividing once by the product.
LEMMA DivideTwice ==
  ASSUME NEW x \in Nat, NEW a \in Nat, NEW b \in Nat, a > 0, b > 0
  PROVE  /\ x \div (a * b) = (x \div a) \div b
         /\ (x \div (a * b)) * b + ((x \div a) % b) = x \div a
<1> DEFINE q == x \div a
           r == x % a
           s == q \div b
           t == q % b
<1>1. q \in Nat /\ r \in Nat /\ r < a /\ x = a * q + r
  OBVIOUS
<1> HIDE DEF q, r
<1>2. s \in Nat /\ t \in Nat /\ t < b /\ q = b * s + t
  BY <1>1
<1> HIDE DEF s, t
<1>3. x = (a * b) * s + (a * t + r)
  <2>1. a * q = a * (b * s) + a * t
    BY <1>1, <1>2
  <2>2. a * (b * s) = (a * b) * s
    BY <1>2
  <2>3. a * q \in Nat /\ (a * b) * s \in Nat /\ a * t \in Nat
    BY <1>1, <1>2
  <2> QED BY <1>1, <2>1, <2>2, <2>3
<1>4. a * t + r \in Nat /\ a * b \in Nat /\ a * t + r < a * b
  <2>1. PICK e \in Nat : b = t + 1 + e
    <3>1. b - t - 1 \in Nat /\ b = t + 1 + (b - t - 1)
      BY <1>2
    <3> QED BY <3>1
  <2>2. a * b = a * t + a + a * e /\ a * e \in Nat /\ a * t \in Nat
    BY <1>2, <2>1
  <2> QED BY <1>1, <2>2
<1>5. x \div (a * b) = s
  BY <1>2, <1>3, <1>4, DivisionUnique
<1>6. s * b + t = q
  <2>1. s * b = b * s
    BY <1>2
  <2> QED BY <1>2, <2>1
<1> QED BY <1>5, <1>6 DEF q, s, t

-----------------------------------------------------------------------------
\* What was joined can be taken apart.
LEMMA PartsOfConcat ==
  ASSUME NEW s \in Seq(Nat), NEW t \in Seq(Nat)
  PROVE  /\ s \o t \in Seq(Nat)
         /\ Len(s \o t) = Len(s) + Len(t)
         /\ SubSeq(s \o t, 1, Len(s)) = s
         /\ SubSeq(s \o t, Len(s) + 1, Len(s \o t)) = t
<1> DEFINE u == s \o t
           M == Len(s)
           N == Len(t)
           v == SubSeq(u, 1, M)
           w == SubSeq(u, M + 1, M + N)
<1>1. M \in Nat /\ N \in Nat /\ \A i \in 1..M : s[i] \in Nat
  BY LenProperties, ElementOfSeq
<1>2. u \in Seq(Nat) /\ Len(u) = M + N /\ \A i \in 1..(M + N) : u[i] = IF i <= M THEN s[i] ELSE t[i - M]
  BY ConcatProperties
<1>3. \A i \in 1..(M + N) : u[i] \in Nat
  BY <1>2, ElementOfSeq
<1> HIDE DEF u, M, N
<1>4. v \in Seq(Nat) /\ Len(v) = M /\ \A i \in 1..M : v[i] = u[i]
  <2>1. \A i \in 1..M : i \in 1..(M + N)
    BY <1>1
  <2>2. 1 \in Int /\ M \in Int /\ \A i \in 1..M : u[i] \in Nat
    BY <1>1, <1>3, <2>1
  <2>3. /\ v \in Seq(Nat) /\ Len(v) = IF 1 <= M THEN M - 1 + 1 ELSE 0
        /\ \A i \in 1..(M - 1 + 1) : v[i] = u[1 + i - 1]
    BY <2>2, SubSeqProperties
  <2>4. M - 1 + 1 = M /\ (1 <= M \/ M = 0) /\ \A i \in 1..M : 1 + i - 1 = i
    BY <1>1
  <2> HIDE DEF v
  <2> QED BY <2>3, <2>4
<1>5. w \in Seq(Nat) /\ Len(w) = N /\ \A i \in 1..N : w[i] = u[M + i]
  <2>1. \A i \in (M + 1)..(M + N) : i \in 1..(M + N)
    BY <1>1
  <2>2. M + 1 \in Int /\ M + N \in Int /\ \A i \in (M + 1)..(M + N) : u[i] \in Nat
    BY <1>1, <1>3, <2>1
  <2> DEFINE a == M + 1
             b == M + N
  <2>3. /\ w \in Seq(Nat) /\ Len(w) = IF a <= b THEN b - a + 1 ELSE 0
        /\ \A i \in 1..(b - a + 1) : w[i] = u[a + i - 1]
    <3>1. w = SubSeq(u, a, b)
      OBVIOUS
    <3>2. a \in Int /\ b \in Int /\ \A i \in a..b : u[i] \in Nat
      BY <2>2
    <3> HIDE DEF a, b, w
    <3> QED BY <3>1, <3>2, SubSeqProperties
  <2>4. b - a + 1 = N /\ (a <= b \/ N = 0) /\ \A i \in 1..N : i \in 1..(b - a + 1) /\ a + i - 1 = M + i
    BY <1>1
  <2>5. Len(w) = N
    <3> HIDE DEF a, b, w
    <3> QED BY <2>3, <2>4
  <2>6. \A i \in 1..N : w[i] = u[M + i]
    <3> HIDE DEF a, b, w
    <3> QED BY <2>3, <2>4
  <2> HIDE DEF w
  <2> QED BY <2>3, <2>5, <2>6
<1> HIDE DEF v, w
<1>6. \A i \in 1..M : v[i] = s[i]
  <2>1. \A i \in 1..M : i \in 1..(M + N) /\ i <= M
    BY <1>1
  <2> QED BY <1>2, <1>4, <2>1
<1>7. \A i \in 1..N : w[i] = t[i]
  <2>1. \A i \in 1..N : M + i \in 1..(M + N) /\ ~(M + i <= M) /\ (M + i) - M = i
    BY <1>1
  <2> QED BY <1>2, <1>5, <2>1
<1>8. v = s
  BY <1>4, <1>6, SeqEqual DEF M
<1>9. w = t
  BY <1>5, <1>7, SeqEqual DEF N
<1> QED BY <1>2, <1>8, <1>9 DEF u, v, w, M, N

\* The first byte of a number tells how many there are (Decompressor::number).
LEMMA CountReadsBack ==
  ASSUME NEW count \in 1..Half, NEW high \in Nat, high < 2 ^ (2 * Half - count)
  PROVE  /\ NumberCount(2 ^ (2 * Half - count) + high) = count
         /\ (2 ^ (2 * Half - count) + high) % 2 ^ (2 * Half - count) = high
<1> DEFINE first == 2 ^ (2 * Half - count) + high
           P(c) == 2 ^ (2 * Half - c)
           S == {c \in 1..Half : first \div P(c) = 1} \cup {Half + 1}
<1>1. \A c \in 1..Half : P(c) \in Nat /\ P(c) > 0
  <2>1. \A c \in 1..Half : 2 * Half - c \in Nat
    BY Sizes
  <2> QED BY <2>1, PowerOfTwo
<1>2. first \in Nat /\ first = P(count) * 1 + high
  <2>1. P(count) \in Nat
    BY <1>1
  <2>2. P(count) * 1 = P(count)
    BY <2>1
  <2> QED BY <2>1, <2>2
<1> HIDE DEF first
<1>3. first \div P(count) = 1 /\ first % P(count) = high
  <2> HIDE DEF P
  <2>1. P(count) \in Nat /\ 1 \in Nat
    BY <1>1
  <2>2. high < P(count)
    BY DEF P
  <2> QED BY <1>2, <2>1, <2>2, DivisionUnique
<1>4. ASSUME NEW c \in 1..Half, c < count
      PROVE  first \div P(c) # 1
  <2>1. 2 ^ (2 * Half - c) = 2 ^ (2 * Half - count) * 2 ^ (count - c)
    <3>1. 2 * Half - count \in Nat /\ count - c \in Nat /\ 2 * Half - c = (2 * Half - count) + (count - c)
      BY <1>4, Sizes
    <3> QED BY <3>1, PowerOfSum
  <2>2. 2 ^ (count - c) \in Nat /\ 2 ^ (count - c) >= 2
    <3>1. count - c - 1 \in Nat /\ 1 \in Nat /\ count - c = 1 + (count - c - 1)
      BY <1>4, Sizes
    <3>2. 2 ^ (count - c) = 2 ^ 1 * 2 ^ (count - c - 1)
      BY <3>1, PowerOfSum
    <3>3. 2 ^ 1 = 2
      OBVIOUS
    <3>4. 2 ^ (count - c - 1) \in Nat /\ 2 ^ (count - c - 1) > 0
      BY <3>1, PowerOfTwo
    <3> QED BY <3>2, <3>3, <3>4
  <2>3. P(c) \in Nat /\ P(count) \in Nat /\ P(c) = P(count) * 2 ^ (count - c)
    BY <1>1, <2>1
  <2> HIDE DEF P
  <2>4. P(count) * 2 ^ (count - c) >= P(count) + P(count)
    <3>1. \A x, y \in Nat : y >= 2 => x * y >= x + x
      <4> TAKE x, y \in Nat
      <4> HAVE y >= 2
      <4>1. PICK z \in Nat : y = 2 + z
        <5>1. y - 2 \in Nat /\ y = 2 + (y - 2)
          OBVIOUS
        <5> QED BY <5>1
      <4>2. x * y = x + x + x * z /\ x * z \in Nat
        BY <4>1
      <4> QED BY <4>2
    <3> QED BY <2>2, <2>3, <3>1
  <2>5. first < P(c)
    <3>1. high < P(count)
      BY DEF P
    <3> QED BY <1>2, <2>3, <2>4, <3>1
  <2>6. first \div P(c) = 0
    <3>1. P(c) * 0 = 0
      BY <2>3
    <3>2. first = P(c) * 0 + first
      BY <1>2, <3>1
    <3> QED BY <1>2, <2>3, <2>5, <3>2, DivisionUnique
  <2> QED BY <2>6
<1>5. S \in SUBSET Nat /\ count \in S /\ \A c \in S : count <= c
  <2>1. S \subseteq 1..(Half + 1) /\ Half \in Nat
    BY Sizes
  <2>2. count \in S
    BY <1>3
  <2>3. ASSUME NEW c \in S
        PROVE  count <= c
    <3>1. c = Half + 1 \/ (c \in 1..Half /\ first \div P(c) = 1)
      OBVIOUS
    <3>2. c \in Nat /\ count \in Nat /\ count <= Half
      BY <2>1
    <3> QED BY <1>4, <2>1, <3>1, <3>2
  <2> QED BY <2>1, <2>2, <2>3
<1>6. Min(S) = count
  <2> HIDE DEF S
  <2>1. S # {}
    BY <1>5
  <2>2. Min(S) \in S /\ \A y \in S : Min(S) <= y
    BY <1>5, <2>1, LeastExists
  <2>3. Min(S) <= count /\ count <= Min(S) /\ Min(S) \in Nat /\ count \in Nat
    BY <1>5, <2>2
  <2> QED BY <2>3
<1> QED BY <1>3, <1>6 DEF NumberCount, first

\* A number is read back, whatever follows it (integer, Decompressor::number).
LEMMA NumberReadsBack ==
  ASSUME NEW value \in 0..BlockSize, NEW r \in Seq(Nat)
  PROVE  Number(Integer(value) \o r) = [ok |-> TRUE, value |-> value, rest |-> r]
<1> DEFINE count == IntegerSize(value)
           P(k) == 2 ^ (2 * Half * k)
           Q(k) == value \div P(k)
           bytes == Integer(value) \o r
<1>1. count \in 1..Half /\ value \in Nat /\ value < 2 ^ ((2 * Half - 1) * count)
  BY IntegerSizeTyped, Sizes
<1>2. Integer(value) \in Seq(Nat) /\ Len(Integer(value)) = count
      /\ Integer(value)[1] = 2 ^ (2 * Half - count) + Q(count - 1)
      /\ \A n \in 1..(count - 1) : Integer(value)[n + 1] = Q(count - 1 - n) % Byte
  BY IntegerBytes
<1> HIDE DEF count
<1>3. \A k \in Nat : P(k) \in Nat /\ P(k) > 0
  <2>1. \A k \in Nat : 2 * Half * k \in Nat
    BY Sizes
  <2> QED BY <2>1, PowerOfTwo
<1>4. Q(0) = value
  <2>1. 2 * Half * 0 = 0
    BY Sizes
  <2>2. 2 ^ 0 = 1
    OBVIOUS
  <2>3. value = 1 * value + 0
    BY <1>1
  <2>4. value \div 1 = value
    BY <1>1
  <2> QED BY <2>1, <2>2, <2>4
<1>5. \A k \in Nat : Q(k + 1) * Byte + (Q(k) % Byte) = Q(k)
  <2> TAKE k \in Nat
  <2>1. P(k + 1) = P(k) * Byte
    <3>1. 2 * Half * (k + 1) = 2 * Half * k + 2 * Half /\ 2 * Half * k \in Nat /\ 2 * Half \in Nat
      BY Sizes
    <3> QED BY <3>1, PowerOfSum DEF Byte
  <2>2. P(k) \in Nat /\ P(k) > 0 /\ Byte \in Nat /\ Byte > 0
    BY <1>3, Sizes
  <2>3. /\ value \div (P(k) * Byte) = (value \div P(k)) \div Byte
        /\ (value \div (P(k) * Byte)) * Byte + ((value \div P(k)) % Byte) = value \div P(k)
    <3> HIDE DEF P
    <3> QED BY <1>1, <2>2, DivideTwice
  <2> HIDE DEF P
  <2> QED BY <2>1, <2>3
<1>6. count - 1 \in Nat /\ \A k \in Nat : Q(k) \in Nat
  <2>1. count - 1 \in Nat
    BY <1>1, Sizes
  <2> HIDE DEF P
  <2> QED BY <1>1, <1>3, <2>1, Division
<1>7. Q(count - 1) < 2 ^ (2 * Half - count)
  <2>1. 2 ^ ((2 * Half - 1) * count) = P(count - 1) * 2 ^ (2 * Half - count)
    <3>1. 2 * Half * (count - 1) \in Nat /\ 2 * Half - count \in Nat
      BY <1>1, <1>6, Sizes
    <3>2. (2 * Half - 1) * count = 2 * Half * (count - 1) + (2 * Half - count)
      BY <1>1, Sizes
    <3> QED BY <3>1, <3>2, PowerOfSum
  <2>2. 2 ^ (2 * Half - count) \in Nat
    <3>1. 2 * Half - count \in Nat
      BY <1>1, Sizes
    <3> QED BY <3>1, PowerOfTwo
  <2>3. \A x, a, b \in Nat : a > 0 /\ x < a * b => x \div a < b
    <3> TAKE x, a, b \in Nat
    <3> HAVE a > 0 /\ x < a * b
    <3> DEFINE q == x \div a
               m == x % a
    <3>1. q \in Nat /\ m \in Nat /\ x = a * q + m
      OBVIOUS
    <3> HIDE DEF q, m
    <3>2. ASSUME ~(q < b)
          PROVE  FALSE
      <4>1. PICK e \in Nat : q = b + e
        <5>1. q - b \in Nat /\ q = b + (q - b)
          BY <3>1, <3>2
        <5> QED BY <5>1
      <4>2. a * q = a * b + a * e /\ a * e \in Nat /\ a * b \in Nat
        BY <4>1
      <4> QED BY <3>1, <4>2
    <3> QED BY <3>2 DEF q
  <2>4. P(count - 1) \in Nat /\ P(count - 1) > 0
    BY <1>3, <1>6
  <2> HIDE DEF P
  <2> QED BY <1>1, <2>1, <2>2, <2>3, <2>4
<1>8. /\ bytes \in Seq(Nat) /\ Len(bytes) = count + Len(r) /\ Len(r) \in Nat
      /\ SubSeq(bytes, count + 1, Len(bytes)) = r
      /\ \A i \in 1..count : bytes[i] = Integer(value)[i]
  <2>1. bytes \in Seq(Nat) /\ Len(bytes) = count + Len(r) /\ SubSeq(bytes, count + 1, Len(bytes)) = r
    BY <1>2, PartsOfConcat
  <2>2. Len(r) \in Nat
    BY LenProperties
  <2>3. \A i \in 1..count : i \in 1..(count + Len(r)) /\ i <= count
    BY <1>1, <2>2, Sizes
  <2>4. \A i \in 1..(count + Len(r)) : bytes[i] = IF i <= count THEN Integer(value)[i] ELSE r[i - count]
    BY <1>2, ConcatProperties
  <2> QED BY <2>1, <2>2, <2>3, <2>4
<1> HIDE DEF bytes
<1>9. bytes # <<>> /\ Head(bytes) = bytes[1] /\ bytes[1] = 2 ^ (2 * Half - count) + Q(count - 1)
  <2>1. 1 \in 1..count /\ Len(bytes) # 0
    BY <1>1, <1>8, Sizes
  <2>2. bytes # <<>>
    BY <1>8, <2>1, EmptySeq
  <2>3. Head(bytes) = bytes[1]
    BY <1>8, <2>2
  <2> QED BY <1>2, <1>8, <2>1, <2>2, <2>3
<1>10. NumberCount(Head(bytes)) = count /\ bytes[1] % 2 ^ (2 * Half - count) = Q(count - 1)
  <2> HIDE DEF Q
  <2> QED BY <1>1, <1>6, <1>7, <1>9, CountReadsBack
<1>11. ~(count > Min({Half, Len(bytes)}))
  <2>1. Half \in Nat /\ Len(bytes) \in Nat /\ count <= Half /\ count <= Len(bytes) /\ count \in Nat
    BY <1>1, <1>8, Sizes
  <2>2. Min({Half, Len(bytes)}) = Half \/ Min({Half, Len(bytes)}) = Len(bytes)
    BY <2>1, MinOfTwo
  <2> QED BY <2>1, <2>2
<1>12. NumberValue(bytes, count) = value
  <2>1. count <= Len(bytes)
    BY <1>1, <1>8, Sizes
  <2>2. PICK v : /\ \A n \in 0..(count - 1) : v[n] \in Nat
                 /\ v[0] = bytes[1] % 2 ^ (2 * Half - count)
                 /\ \A n \in 1..(count - 1) : v[n] = v[n - 1] * Byte + bytes[n + 1]
                 /\ NumberValue(bytes, count) = v[count - 1]
    BY <1>1, <1>8, <2>1, NumberValueLoop
  <2> DEFINE T == {n \in 0..(count - 1) : v[n] = Q(count - 1 - n)}
             N == count - 1
  <2> HIDE DEF Q
  <2>3. 0 \in T
    <3>1. 0 \in 0..(count - 1) /\ count - 1 - 0 = count - 1
      BY <1>6
    <3> QED BY <1>10, <2>2, <3>1
  <2>4. ASSUME NEW n \in 0..(N - 1), n \in T
        PROVE  n + 1 \in T
    <3>0. n \in Nat /\ count \in Nat /\ n < count - 1
      BY <1>6, <1>1, Sizes
    <3>1. n + 1 \in 1..(count - 1) /\ (n + 1) - 1 = n /\ (n + 1) + 1 \in 1..count /\ n + 1 \in 0..(count - 1)
      BY <3>0
    <3>2. bytes[(n + 1) + 1] = Q(count - 1 - (n + 1)) % Byte
      BY <1>2, <1>8, <3>1
    <3>3. v[n + 1] = v[n] * Byte + bytes[(n + 1) + 1]
      BY <2>2, <3>1
    <3> DEFINE k == count - 1 - (n + 1)
    <3>4. k \in Nat /\ k + 1 = count - 1 - n
      BY <3>0
    <3>5. v[n] = Q(k + 1)
      BY <2>4, <3>4
    <3>6. Q(k + 1) * Byte + (Q(k) % Byte) = Q(k)
      BY <1>5, <3>4
    <3>7. v[n + 1] = Q(k)
      BY <3>2, <3>3, <3>5, <3>6
    <3> QED BY <3>1, <3>7
  <2>5. N \in T
    <3> HIDE DEF T
    <3>1. N \in Nat
      BY <1>6
    <3>2. 0..N \subseteq T
      <4> HIDE DEF N
      <4> QED BY <2>3, <2>4, <3>1, CountsUp
    <3>3. N \in 0..N
      BY <3>1
    <3> QED BY <3>2, <3>3
  <2>6. count - 1 - (count - 1) = 0
    BY <1>6
  <2> QED BY <1>4, <2>2, <2>5, <2>6
<1> QED BY <1>8, <1>9, <1>10, <1>11, <1>12 DEF Number, bytes

-----------------------------------------------------------------------------
(* Steps of the decompressor, and how it reads what the compressor writes. *)

\* One step of Decode.
DecodeStep(d) ==
  IF d.rest = <<>> THEN Refuse(d)
  ELSE IF Head(d.rest) = 0 THEN Close([d EXCEPT !.rest = Tail(@)])
  ELSE DecodeTag([d EXCEPT !.rest = Tail(@)], Head(d.rest))

\* A decompressor that becomes another in n steps.
Path(f, n, d, e) ==
  /\ f[0] = d /\ f[n] = e
  /\ \A i \in 0..(n - 1) : f[i].status = "reading" /\ f[i + 1] = DecodeStep(f[i])

\* In some number of steps.
Reaches(d, e) == \E n \in Nat : \E f : Path(f, n, d, e)

\* One in the middle of a stream.
Reading(bytes, produced, items, sum, output, maximum) ==
  [rest |-> bytes, block |-> produced, indices |-> items, checksum |-> sum, output |-> output,
   maximum |-> maximum, status |-> "reading"]

\* No step at all.
LEMMA ReachesSelf ==
  ASSUME NEW d
  PROVE  Reaches(d, d)
<1>1. Path([i \in 0..0 |-> d], 0, d, d)
  BY DEF Path
<1> QED BY <1>1 DEF Reaches

\* One step more.
LEMMA ReachesNext ==
  ASSUME NEW d, NEW e, Reaches(d, e), e.status = "reading"
  PROVE  Reaches(d, DecodeStep(e))
<1>0. PICK n \in Nat : \E f : Path(f, n, d, e)
  BY DEF Reaches
<1>1. PICK f : Path(f, n, d, e)
  BY <1>0
<1> DEFINE last == DecodeStep(e)
           g == [i \in 0..(n + 1) |-> IF i = n + 1 THEN last ELSE f[i]]
<1>2. g[n + 1] = last /\ \A i \in 0..n : g[i] = f[i]
  BY <1>1
<1>3. f[0] = d /\ f[n] = e /\ \A i \in 0..(n - 1) : f[i].status = "reading" /\ f[i + 1] = DecodeStep(f[i])
  BY <1>1 DEF Path
<1> HIDE DEF g
<1>4. g[0] = d
  BY <1>2, <1>3
<1>5. ASSUME NEW i \in 0..((n + 1) - 1)
      PROVE  g[i].status = "reading" /\ g[i + 1] = DecodeStep(g[i])
  <2>1. CASE i = n
    BY <1>2, <1>3, <2>1
  <2>2. CASE i # n
    <3>1. i \in 0..(n - 1) /\ i \in 0..n /\ i + 1 \in 0..n
      BY <2>2
    <3> QED BY <1>2, <1>3, <3>1
  <2> QED BY <2>1, <2>2
<1>6. Path(g, n + 1, d, last)
  BY <1>2, <1>4, <1>5 DEF Path
<1>7. n + 1 \in Nat
  OBVIOUS
<1> QED BY <1>6, <1>7 DEF Reaches

\* The first step.
LEMMA ReachesFirst ==
  ASSUME NEW d, NEW e, Reaches(d, e), d.status = "reading", e.status # "reading"
  PROVE  Reaches(DecodeStep(d), e)
<1>0. PICK n \in Nat : \E f : Path(f, n, d, e)
  BY DEF Reaches
<1>1. PICK f : Path(f, n, d, e)
  BY <1>0
<1>2. f[0] = d /\ f[n] = e /\ \A i \in 0..(n - 1) : f[i].status = "reading" /\ f[i + 1] = DecodeStep(f[i])
  BY <1>1 DEF Path
<1>3. n # 0
  BY <1>2
<1> DEFINE m == n - 1
           g == [i \in 0..m |-> f[i + 1]]
<1>4. m \in Nat /\ \A i \in 0..m : g[i] = f[i + 1]
  BY <1>3
<1>5. g[0] = DecodeStep(d) /\ g[m] = e
  <2>1. 0 \in 0..(n - 1) /\ 0 + 1 = 1 /\ 0 \in 0..m /\ m \in 0..m /\ m + 1 = n
    BY <1>3
  <2> HIDE DEF g, m
  <2> QED BY <1>2, <1>4, <2>1
<1>6. ASSUME NEW i \in 0..(m - 1)
      PROVE  g[i].status = "reading" /\ g[i + 1] = DecodeStep(g[i])
  <2>1. i + 1 \in 0..(n - 1) /\ i \in 0..m /\ i + 1 \in 0..m
    BY <1>3
  <2> HIDE DEF g, m
  <2> QED BY <1>2, <1>4, <2>1
<1>7. Path(g, m, DecodeStep(d), e)
  <2> HIDE DEF g, m
  <2> QED BY <1>5, <1>6 DEF Path
<1> QED BY <1>4, <1>7 DEF Reaches

\* Where nothing is left to do.
LEMMA ReachesEnd ==
  ASSUME NEW d, NEW e, Reaches(d, e), d.status # "reading"
  PROVE  d = e
<1>0. PICK n \in Nat : \E f : Path(f, n, d, e)
  BY DEF Reaches
<1>1. PICK f : Path(f, n, d, e)
  BY <1>0
<1>2. n = 0
  <2>1. ASSUME n # 0
        PROVE  FALSE
    <3>1. 0 \in 0..(n - 1)
      BY <2>1
    <3> QED BY <1>1, <3>1 DEF Path
  <2> QED BY <2>1
<1> QED BY <1>1, <1>2 DEF Path

\* With other bytes to read.
From(d, r) == [d EXCEPT !.rest = r]

\* Only the stream moves on.
LEMMA ReadingRest ==
  ASSUME NEW s, NEW r, NEW B, NEW I, NEW sum, NEW out, NEW max
  PROVE  From(Reading(s, B, I, sum, out, max), r) = Reading(r, B, I, sum, out, max)
BY DEF Reading, From

\* Literals are read back with their numbers.
LEMMA CopyLiteralsReadsBack ==
  ASSUME NEW run, NEW r, NEW B, NEW I, NEW sum, NEW out, NEW max,
         run \in Seq(Nat), r \in Seq(Nat), B \in Seq(Nat),
         Len(run) <= MaxLiterals, Len(B) + Len(run) <= BlockSize
  PROVE  CopyLiterals(Reading(run \o r, B, I, sum, out, max), Len(run))
           = Reading(r, B \o run, I \o [n \in 1..Len(run) |-> Len(B) + n - 1], sum, out, max)
<1> DEFINE d == Reading(run \o r, B, I, sum, out, max)
<1>1. Len(run) \in Nat /\ Len(r) \in Nat /\ Len(B) \in Nat
  BY LenProperties
<1>2. /\ Len(run \o r) = Len(run) + Len(r)
      /\ SubSeq(run \o r, 1, Len(run)) = run
      /\ SubSeq(run \o r, Len(run) + 1, Len(run \o r)) = r
  BY PartsOfConcat
<1>3. d.rest = run \o r /\ d.block = B /\ d.indices = I
  BY DEF Reading
<1>4. ~(Len(run) > MaxLiterals \/ Len(run) > BlockSize - Len(d.block) \/ Len(run) > Len(d.rest))
  BY <1>1, <1>2, <1>3, Sizes
<1>5. CopyLiterals(d, Len(run))
        = [d EXCEPT !.rest = SubSeq(@, Len(run) + 1, Len(@)),
                    !.block = @ \o SubSeq(d.rest, 1, Len(run)),
                    !.indices = @ \o [n \in 1..Len(run) |-> Len(d.block) + n - 1]]
  BY <1>4 DEF CopyLiterals
<1>6. CopyLiterals(d, Len(run))
        = [d EXCEPT !.rest = r, !.block = B \o run, !.indices = I \o [n \in 1..Len(run) |-> Len(B) + n - 1]]
  <2> HIDE DEF d
  <2> QED BY <1>2, <1>3, <1>5
<1> QED BY <1>6 DEF Reading

\* A count that does not fit the tag follows it.
LongCount(length) == IF length >= Short THEN Integer(length) ELSE <<>>

\* A count that fits the tag has no bytes of its own.
LEMMA LongCountTyped ==
  ASSUME NEW length \in 0..BlockSize
  PROVE  /\ LongCount(length) \in Seq(Nat)
         /\ length < Short => LongCount(length) = <<>> /\ Min({length, Short}) = length
         /\ ~(length < Short) => LongCount(length) = Integer(length) /\ Min({length, Short}) = Short
<1>1. length \in Nat /\ Short \in Nat
  BY Sizes
<1>2. length < Short <=> ~(length >= Short)
  BY <1>1
<1>3. Integer(length) \in Seq(Nat) /\ <<>> \in Seq(Nat)
  BY IntegerTyped
<1>4. /\ Min({length, Short}) \in Nat /\ Min({length, Short}) <= length /\ Min({length, Short}) <= Short
      /\ Min({length, Short}) = length \/ Min({length, Short}) = Short
  BY <1>1, MinOfTwo
<1> QED BY <1>1, <1>2, <1>3, <1>4 DEF LongCount

\* With their count in the tag or after it.
LEMMA LiteralsReadBack ==
  ASSUME NEW run, NEW r, NEW B, NEW I, NEW sum, NEW out, NEW max,
         run \in Seq(Nat), r \in Seq(Nat), B \in Seq(Nat),
         Len(run) <= MaxLiterals, Len(B) + Len(run) <= BlockSize
  PROVE  Literals(Reading(LongCount(Len(run)) \o (run \o r), B, I, sum, out, max), Min({Len(run), Short}))
           = Reading(r, B \o run, I \o [n \in 1..Len(run) |-> Len(B) + n - 1], sum, out, max)
<1> DEFINE length == Len(run)
           d == Reading(LongCount(length) \o (run \o r), B, I, sum, out, max)
           e == Reading(run \o r, B, I, sum, out, max)
           goal == Reading(r, B \o run, I \o [n \in 1..Len(run) |-> Len(B) + n - 1], sum, out, max)
<1>1. length \in 0..BlockSize /\ Len(B) \in Nat /\ length \in Nat
  BY LenProperties, Sizes
<1>2. run \o r \in Seq(Nat)
  BY ConcatProperties
<1>3. CopyLiterals(e, length) = goal
  BY CopyLiteralsReadsBack
<1> HIDE DEF goal
<1>4. CASE length < Short
  <2>1. LongCount(length) = <<>> /\ Min({length, Short}) = length
    BY <1>1, <1>4, LongCountTyped
  <2>2. d = e
    BY <1>2, <2>1, ConcatEmptySeq
  <2> HIDE DEF d, e, length
  <2>3. Literals(d, Min({length, Short})) = goal
    BY <1>3, <1>4, <2>1, <2>2 DEF Literals
  <2> QED BY <2>3 DEF d, goal, length
<1>5. CASE ~(length < Short)
  <2>1. LongCount(length) = Integer(length) /\ Min({length, Short}) = Short
    BY <1>1, <1>5, LongCountTyped
  <2>2. Number(d.rest) = [ok |-> TRUE, value |-> length, rest |-> run \o r]
    <3>1. d.rest = Integer(length) \o (run \o r)
      BY <2>1 DEF Reading
    <3> QED BY <1>1, <1>2, <3>1, NumberReadsBack
  <2>3. From(d, run \o r) = e
    BY ReadingRest
  <2>4. ~(Short < Short)
    BY Sizes
  <2> HIDE DEF d, e, length
  <2>5. Literals(d, Short) = CopyLiterals(From(d, Number(d.rest).rest), Number(d.rest).value)
    BY <2>2, <2>4 DEF Literals, From
  <2>6. Literals(d, Short) = goal
    BY <1>3, <2>2, <2>3, <2>5
  <2> QED BY <2>1, <2>6 DEF d, goal, length
<1> QED BY <1>4, <1>5

\* A tag has room for both of its counts.
LEMMA ShortPositive == Short > 0
<1>1. 2 ^ 1 = 2 /\ Half - 1 \in Nat /\ 1 \in Nat /\ Half = 1 + (Half - 1)
  BY Sizes
<1>2. 2 ^ Half = 2 ^ 1 * 2 ^ (Half - 1)
  BY <1>1, PowerOfSum
<1>3. 2 ^ (Half - 1) \in Nat /\ 2 ^ (Half - 1) > 0
  BY <1>1, PowerOfTwo
<1> QED BY <1>1, <1>2, <1>3 DEF Short

\* One item, numbered where the block ended.
LEMMA CopyItemReadsBack ==
  ASSUME NEW r, NEW B, NEW I, NEW sum, NEW out, NEW max,
         B \in Seq(Nat),
         NEW length \in Nat, NEW source \in Nat, source + length <= Len(B)
  PROVE  CopyItem(Reading(r, B, I, sum, out, max), length, source)
           = Reading(r, B \o SubSeq(B, source + 1, source + length), Append(I, Len(B)), sum, out, max)
<1> DEFINE d == Reading(r, B, I, sum, out, max)
<1>1. d.block = B /\ d.indices = I /\ Len(B) \in Nat
  BY LenProperties DEF Reading
<1>2. ~(source > Len(d.block) \/ length > Len(d.block) - source)
  BY <1>1
<1>3. CopyItem(d, length, source)
        = [d EXCEPT !.block = B \o SubSeq(B, source + 1, source + length), !.indices = Append(I, Len(B))]
  <2> HIDE DEF d
  <2> QED BY <1>1, <1>2 DEF CopyItem
<1> QED BY <1>3 DEF Reading

\* A run of the block, counted from MinMatch on, at an item counted from the last.
Copyable(r, B, I, count, length, distance, source) ==
  /\ r \in Seq(Nat) /\ B \in Seq(Nat) /\ I \in Seq(Nat)
  /\ count \in Nat /\ count > 0 /\ length = count + MinMatch - 1 /\ Len(B) + length <= BlockSize
  /\ distance \in 1..Len(I) /\ distance <= BlockSize
  /\ source = I[Len(I) - distance + 1] /\ source + length <= Len(B)

\* A run is copied from the item it names.
LEMMA CopyRunReadsBack ==
  ASSUME NEW r, NEW B, NEW I, NEW sum, NEW out, NEW max, NEW count, NEW length, NEW distance, NEW source,
         Copyable(r, B, I, count, length, distance, source)
  PROVE  CopyRun(Reading(Integer(distance) \o r, B, I, sum, out, max), count)
           = Reading(r, B \o SubSeq(B, source + 1, source + length), Append(I, Len(B)), sum, out, max)
<1> DEFINE d == Reading(Integer(distance) \o r, B, I, sum, out, max)
           e == Reading(r, B, I, sum, out, max)
<1>0. /\ r \in Seq(Nat) /\ B \in Seq(Nat) /\ I \in Seq(Nat)
      /\ count \in Nat /\ count > 0 /\ length = count + MinMatch - 1 /\ Len(B) + length <= BlockSize
      /\ distance \in 1..Len(I) /\ distance <= BlockSize
      /\ source = I[Len(I) - distance + 1] /\ source + length <= Len(B)
  BY DEF Copyable
<1> USE <1>0
<1>1. Len(I) \in Nat /\ Len(B) \in Nat /\ length \in Nat /\ distance \in 0..BlockSize /\ distance # 0
  BY LenProperties, Sizes
<1>2. source \in Nat
  <2>1. Len(I) - distance + 1 \in 1..Len(I)
    BY <1>1
  <2> QED BY <2>1, ElementOfSeq
<1>3. d.rest = Integer(distance) \o r /\ d.block = B /\ d.indices = I
  BY DEF Reading
<1>4. Number(d.rest) = [ok |-> TRUE, value |-> distance, rest |-> r]
  BY <1>1, <1>3, NumberReadsBack
<1>5. From(d, r) = e
  BY ReadingRest
<1>6. ~(count = 0 \/ count + MinMatch - 1 > BlockSize - Len(d.block))
  <2>1. \A l, b, s \in Nat : b + l <= s => ~(l > s - b)
    OBVIOUS
  <2>2. ~(length > BlockSize - Len(B))
    BY <1>1, <2>1, Sizes
  <2> HIDE DEF d
  <2>3. count # 0 /\ count + MinMatch - 1 = length /\ Len(d.block) = Len(B)
    BY <1>3
  <2> QED BY <2>2, <2>3
<1>7. distance <= Len(I)
  BY <1>1
<1> HIDE DEF d, e
<1>8. CopyRun(d, count)
        = CopyItem(From(d, Number(d.rest).rest), length, d.indices[Len(d.indices) - Number(d.rest).value + 1])
  <2> DEFINE n == Number(d.rest)
  <2>1. ~(~n.ok \/ n.value = 0 \/ n.value > Len(d.indices))
    BY <1>1, <1>3, <1>4, <1>7
  <2> QED BY <1>6, <2>1 DEF CopyRun, From
<1>9. CopyRun(d, count) = CopyItem(e, length, source)
  BY <1>3, <1>4, <1>5, <1>8
<1>10. source + length <= Len(B)
  OBVIOUS
<1>11. CopyItem(e, length, source)
         = Reading(r, B \o SubSeq(B, source + 1, source + length), Append(I, Len(B)), sum, out, max)
  <2>1. length \in Nat /\ source \in Nat /\ source + length <= Len(B)
    BY <1>1, <1>2, <1>10
  <2>2. CopyItem(Reading(r, B, I, sum, out, max), length, source)
          = Reading(r, B \o SubSeq(B, source + 1, source + length), Append(I, Len(B)), sum, out, max)
    BY <2>1, CopyItemReadsBack
  <2> QED BY <2>2 DEF e
<1> QED BY <1>9, <1>11 DEF d

\* With its count in the tag or after the literals.
LEMMA ReferenceReadsBack ==
  ASSUME NEW r, NEW B, NEW I, NEW sum, NEW out, NEW max, NEW count, NEW length, NEW distance, NEW source,
         Copyable(r, B, I, count, length, distance, source)
  PROVE  Reference(Reading(LongCount(count) \o (Integer(distance) \o r), B, I, sum, out, max), Min({count, Short}))
           = Reading(r, B \o SubSeq(B, source + 1, source + length), Append(I, Len(B)), sum, out, max)
<1> DEFINE d == Reading(LongCount(count) \o (Integer(distance) \o r), B, I, sum, out, max)
           e == Reading(Integer(distance) \o r, B, I, sum, out, max)
           goal == Reading(r, B \o SubSeq(B, source + 1, source + length), Append(I, Len(B)), sum, out, max)
<1>0. /\ r \in Seq(Nat) /\ B \in Seq(Nat) /\ I \in Seq(Nat)
      /\ count \in Nat /\ count > 0 /\ length = count + MinMatch - 1 /\ Len(B) + length <= BlockSize
      /\ distance \in 1..Len(I) /\ distance <= BlockSize
      /\ source = I[Len(I) - distance + 1] /\ source + length <= Len(B)
  BY DEF Copyable
<1> USE <1>0
<1>1. count \in 0..BlockSize /\ distance \in 0..BlockSize
  <2>1. Len(I) \in Nat /\ Len(B) \in Nat
    BY LenProperties
  <2> QED BY <2>1, Sizes
<1>2. Integer(distance) \o r \in Seq(Nat)
  BY <1>1, IntegerTyped, ConcatProperties
<1>3. CopyRun(e, count) = goal
  BY CopyRunReadsBack
<1>4. d.status = "reading"
  BY DEF Reading
<1> HIDE DEF goal
<1>5. CASE count < Short
  <2>1. LongCount(count) = <<>> /\ Min({count, Short}) = count
    BY <1>1, <1>5, LongCountTyped
  <2>2. d = e
    BY <1>2, <2>1, ConcatEmptySeq
  <2> HIDE DEF d, e
  <2>3. Reference(d, count) = CopyRun(d, count)
    BY <1>4, <1>5 DEF Reference
  <2>4. Reference(d, Min({count, Short})) = goal
    BY <1>3, <2>1, <2>2, <2>3
  <2> QED BY <2>4 DEF d, goal
<1>6. CASE ~(count < Short)
  <2>1. LongCount(count) = Integer(count) /\ Min({count, Short}) = Short
    BY <1>1, <1>6, LongCountTyped
  <2>2. Number(d.rest) = [ok |-> TRUE, value |-> count, rest |-> Integer(distance) \o r]
    <3>1. d.rest = Integer(count) \o (Integer(distance) \o r)
      BY <2>1 DEF Reading
    <3> QED BY <1>1, <1>2, <3>1, NumberReadsBack
  <2>3. From(d, Integer(distance) \o r) = e
    BY ReadingRest
  <2>4. ~(Short < Short) /\ Short # 0
    BY Sizes, ShortPositive
  <2> HIDE DEF d, e
  <2>5. Reference(d, Short) = CopyRun(From(d, Number(d.rest).rest), Number(d.rest).value)
    BY <1>4, <2>2, <2>4 DEF Reference, From
  <2>6. Reference(d, Short) = goal
    BY <1>3, <2>2, <2>3, <2>5
  <2>7. Reference(d, Min({count, Short})) = goal
    BY <2>1, <2>6
  <2> QED BY <2>7 DEF d, goal
<1> QED BY <1>5, <1>6

\* A tag gives back both of its counts.
LEMMA TagReadsBack ==
  ASSUME NEW count \in Nat, NEW reference \in 0..Short
  PROVE  /\ count * 2 ^ Half + reference \in Nat
         /\ (count * 2 ^ Half + reference) \div 2 ^ Half = count
         /\ (count * 2 ^ Half + reference) % 2 ^ Half = reference
<1> DEFINE P == 2 ^ Half
<1>1. P \in Nat /\ P > 0 /\ Short = P - 1
  BY Sizes DEF Short
<1> HIDE DEF P
<1>2. reference \in Nat /\ reference < P
  BY <1>1
<1>3. count * P + reference \in Nat /\ count * P + reference = P * count + reference
  BY <1>1, <1>2
<1>4. (count * P + reference) \div P = count /\ (count * P + reference) % P = reference
  BY <1>1, <1>2, <1>3, DivisionUnique
<1> QED BY <1>3, <1>4 DEF P

\* The first byte of a stream and the others.
LEMMA FirstByte ==
  ASSUME NEW h \in Nat, NEW t \in Seq(Nat)
  PROVE  <<h>> \o t \in Seq(Nat) /\ <<h>> \o t # <<>> /\ Head(<<h>> \o t) = h /\ Tail(<<h>> \o t) = t
<1> DEFINE s == <<h>> \o t
<1>1. <<h>> \in Seq(Nat) /\ Len(<<h>>) = 1 /\ <<h>>[1] = h /\ Len(t) \in Nat
  BY LenProperties
<1>2. /\ s \in Seq(Nat) /\ Len(s) = 1 + Len(t)
      /\ \A i \in 1..(1 + Len(t)) : s[i] = IF i <= 1 THEN <<h>>[i] ELSE t[i - 1]
  BY <1>1, ConcatProperties
<1> HIDE DEF s
<1>3. s # <<>>
  BY <1>1, <1>2, EmptySeq
<1>4. Head(s) = s[1] /\ s[1] = h
  <2>1. 1 \in 1..(1 + Len(t))
    BY <1>1
  <2> QED BY <1>1, <1>2, <1>3, <2>1, HeadTailProperties
<1>5. /\ Tail(s) \in Seq(Nat) /\ Len(Tail(s)) = Len(t)
      /\ \A i \in 1..Len(t) : Tail(s)[i] = s[i + 1]
  <2>1. Tail(s) \in Seq(Nat) /\ Len(Tail(s)) = Len(s) - 1 /\ \A i \in 1..Len(Tail(s)) : Tail(s)[i] = s[i + 1]
    BY <1>2, <1>3, HeadTailProperties
  <2> QED BY <1>1, <1>2, <2>1
<1>6. \A i \in 1..Len(t) : Tail(s)[i] = t[i]
  <2>1. \A i \in 1..Len(t) : i + 1 \in 1..(1 + Len(t)) /\ ~(i + 1 <= 1) /\ (i + 1) - 1 = i
    BY <1>1
  <2> QED BY <1>2, <1>5, <2>1
<1>7. Tail(s) = t
  BY <1>5, <1>6, SeqEqual
<1> QED BY <1>2, <1>3, <1>4, <1>7 DEF s

\* Concatenation as an operator without built-in meaning.
Join(s, t) == s \o t

\* Joining is associative.
LEMMA JoinAssociative ==
  /\ \A s, t \in Seq(Nat) : Join(s, t) \in Seq(Nat)
  /\ \A s, t, u \in Seq(Nat) : Join(Join(s, t), u) = Join(s, Join(t, u))
<1>1. \A s, t, u \in Seq(Nat) : (s \o t) \o u = s \o (t \o u)
  BY ConcatAssociative, SMT
<1>2. \A s, t, u \in Seq(Nat) : Join(Join(s, t), u) = Join(s, Join(t, u))
  BY <1>1, Zenon DEF Join
<1>3. \A s, t \in Seq(Nat) : Join(s, t) \in Seq(Nat)
  BY ConcatProperties DEF Join
<1> QED BY <1>2, <1>3

\* Literals number the bytes of the block from its end.
Numbered(items, count, start) == items \o [n \in 1..count |-> start + n - 1]

\* A tag and the literals it counts are read back in one step, up to the
\* reference that follows them.
LEMMA FlushReadsBack ==
  ASSUME NEW reference \in 0..Short, NEW r, NEW B, NEW I, NEW sum, NEW out, NEW max,
         r \in Seq(Nat), B \in Seq(Nat), I \in Seq(Nat), literal \in Seq(Nat),
         ~(Len(literal) = 0 /\ reference = 0),
         Len(literal) <= MaxLiterals, Len(B) + Len(literal) <= BlockSize
  PROVE  /\ Flushed(reference) \in Seq(Nat)
         /\ DecodeStep(Reading(Flushed(reference) \o r, B, I, sum, out, max))
              = Roll(Reference(Reading(r, B \o literal, Numbered(I, Len(literal), Len(B)),
                                       sum, out, max), reference))
<1> DEFINE length == Len(literal)
           tag == Min({length, Short}) * 2 ^ Half + reference
           tail == LongCount(length) \o (literal \o r)
           d == Reading(Flushed(reference) \o r, B, I, sum, out, max)
           e == Reading(tail, B, I, sum, out, max)
           after == Reading(r, B \o literal, Numbered(I, Len(literal), Len(B)), sum, out, max)
<1>1. length \in Nat /\ Len(B) \in Nat /\ length \in 0..BlockSize /\ reference \in Nat
  BY LenProperties, Sizes
<1>2. LongCount(length) \in Seq(Nat) /\ literal \o r \in Seq(Nat) /\ tail \in Seq(Nat)
  <2>1. LongCount(length) \in Seq(Nat)
    BY <1>1, LongCountTyped
  <2>2. literal \o r \in Seq(Nat)
    BY ConcatProperties
  <2> QED BY <2>1, <2>2, ConcatProperties
<1>3. Min({length, Short}) \in Nat /\ (length # 0 => Min({length, Short}) # 0)
  <2> HIDE DEF length
  <2>1. length \in Nat /\ Short \in Nat /\ Short > 0
    BY <1>1, Sizes, ShortPositive
  <2>2. Min({length, Short}) \in Nat /\ (Min({length, Short}) = length \/ Min({length, Short}) = Short)
    BY <2>1, MinOfTwo
  <2> QED BY <2>1, <2>2
<1>4. tag \in Nat /\ tag \div 2 ^ Half = Min({length, Short}) /\ tag % 2 ^ Half = reference
  <2> HIDE DEF length
  <2> QED BY <1>3, TagReadsBack
<1>5. tag # 0
  <2>1. Min({length, Short}) * 2 ^ Half \in Nat
    BY <1>3, Sizes
  <2>2. Min({length, Short}) # 0 => Min({length, Short}) * 2 ^ Half # 0
    BY <1>3, Sizes
  <2>3. length # 0 \/ reference # 0
    OBVIOUS
  <2> HIDE DEF length
  <2> QED BY <1>1, <1>3, <2>1, <2>2, <2>3
<1>6. Flushed(reference) = (<<tag>> \o LongCount(length)) \o literal
  BY DEF Flushed, LongCount
<1> HIDE DEF tag
<1>7. <<tag>> \in Seq(Nat) /\ <<tag>> \o LongCount(length) \in Seq(Nat)
  <2>1. <<tag>> \in Seq(Nat)
    BY <1>4
  <2> QED BY <1>2, <2>1, ConcatProperties
<1>8. Flushed(reference) \in Seq(Nat)
  BY <1>6, <1>7, ConcatProperties
<1>9. Flushed(reference) \o r = <<tag>> \o tail
  <2> HIDE DEF length
  <2> DEFINE first == <<tag>>
             long == LongCount(length)
  <2>1. first \in Seq(Nat) /\ long \in Seq(Nat)
    BY <1>2, <1>7
  <2> HIDE DEF first, long
  <2>2. Join(Join(Join(first, long), literal), r) = Join(first, Join(long, Join(literal, r)))
    BY <2>1, JoinAssociative
  <2>3. ((first \o long) \o literal) \o r = first \o (long \o (literal \o r))
    BY <2>2 DEF Join
  <2> QED BY <1>6, <2>3 DEF first, long
<1>10. <<tag>> \o tail # <<>> /\ Head(<<tag>> \o tail) = tag /\ Tail(<<tag>> \o tail) = tail
  BY <1>2, <1>4, FirstByte
<1>11. d.rest = <<tag>> \o tail
  BY <1>9 DEF Reading
<1>12. From(d, tail) = e
  BY ReadingRest
<1>13. Literals(e, Min({length, Short})) = after
  BY LiteralsReadBack DEF Numbered
<1> HIDE DEF d, e, after, tail, length
<1>14. DecodeStep(d) = DecodeTag(From(d, Tail(d.rest)), Head(d.rest))
  BY <1>5, <1>10, <1>11 DEF DecodeStep, From
<1>15. DecodeStep(d) = DecodeTag(e, tag)
  BY <1>10, <1>11, <1>12, <1>14
<1>16. DecodeTag(e, tag) = Roll(Reference(after, reference))
  BY <1>4, <1>13 DEF DecodeTag
<1> QED BY <1>8, <1>15, <1>16 DEF d, after

\* A part of a block, and the literals that follow it.
LEMMA BlockParts ==
  ASSUME NEW s \in Seq(Nat), NEW a \in 0..Len(s), NEW b \in a..Len(s)
  PROVE  /\ SubSeq(s, 1, a) \in Seq(Nat) /\ Len(SubSeq(s, 1, a)) = a
         /\ SubSeq(s, a + 1, b) \in Seq(Nat) /\ Len(SubSeq(s, a + 1, b)) = b - a
         /\ \A i \in 1..a : SubSeq(s, 1, a)[i] = s[i]
         /\ \A i \in 1..(b - a) : SubSeq(s, a + 1, b)[i] = s[a + i]
         /\ SubSeq(s, 1, a) \o SubSeq(s, a + 1, b) = SubSeq(s, 1, b)
<1>1. Len(s) \in Nat /\ a \in Nat /\ b \in Nat /\ a <= b /\ b <= Len(s) /\ b - a \in Nat
  BY LenProperties
<1>2. \A i \in 1..Len(s) : s[i] \in Nat
  BY ElementOfSeq
<1>3. /\ SubSeq(s, 1, a) \in Seq(Nat) /\ Len(SubSeq(s, 1, a)) = a
      /\ \A i \in 1..a : SubSeq(s, 1, a)[i] = s[i]
  <2>1. \A i \in 1..a : i \in 1..Len(s)
    BY <1>1
  <2>2. 1 \in Int /\ a \in Int /\ \A i \in 1..a : s[i] \in Nat
    BY <1>1, <1>2, <2>1
  <2>3. /\ SubSeq(s, 1, a) \in Seq(Nat) /\ Len(SubSeq(s, 1, a)) = IF 1 <= a THEN a - 1 + 1 ELSE 0
        /\ \A i \in 1..(a - 1 + 1) : SubSeq(s, 1, a)[i] = s[1 + i - 1]
    BY <2>2, SubSeqProperties
  <2>4. a - 1 + 1 = a /\ (1 <= a \/ a = 0) /\ \A i \in 1..a : 1 + i - 1 = i
    BY <1>1
  <2> QED BY <2>3, <2>4
<1>4. /\ SubSeq(s, a + 1, b) \in Seq(Nat) /\ Len(SubSeq(s, a + 1, b)) = b - a
      /\ \A i \in 1..(b - a) : SubSeq(s, a + 1, b)[i] = s[a + i]
  <2> DEFINE c == a + 1
  <2>1. c \in Int /\ b \in Int /\ \A i \in c..b : i \in 1..Len(s)
    BY <1>1
  <2>2. \A i \in c..b : s[i] \in Nat
    BY <1>2, <2>1
  <2>3. b - c + 1 = b - a /\ (c <= b \/ b - a = 0) /\ \A i \in 1..(b - a) : i \in 1..(b - c + 1) /\ c + i - 1 = a + i
    BY <1>1
  <2> HIDE DEF c
  <2>4. /\ SubSeq(s, c, b) \in Seq(Nat) /\ Len(SubSeq(s, c, b)) = IF c <= b THEN b - c + 1 ELSE 0
        /\ \A i \in 1..(b - c + 1) : SubSeq(s, c, b)[i] = s[c + i - 1]
    BY <2>1, <2>2, SubSeqProperties
  <2>5. SubSeq(s, c, b) \in Seq(Nat) /\ Len(SubSeq(s, c, b)) = b - a
    BY <2>3, <2>4
  <2>6. \A i \in 1..(b - a) : SubSeq(s, c, b)[i] = s[a + i]
    BY <2>3, <2>4
  <2> QED BY <2>5, <2>6 DEF c
<1>5. SubSeq(s, 1, a) \o SubSeq(s, a + 1, b) = SubSeq(s, 1, b)
  <2>1. 1 \in 1..(Len(s) + 1) /\ a \in (1 - 1)..Len(s) /\ b \in a..Len(s)
    BY <1>1
  <2> QED BY <2>1, ConcatAdjacentSubSeq
<1> QED BY <1>3, <1>4, <1>5

\* A run copied from earlier in the block.
LEMMA RunCopied ==
  ASSUME NEW s \in Seq(Nat), NEW p \in 0..Len(s), NEW e \in Nat, NEW l \in Nat, e + l <= p, p + l <= Len(s),
         \A n \in 1..l : s[e + n] = s[p + n]
  PROVE  SubSeq(s, 1, p) \o SubSeq(SubSeq(s, 1, p), e + 1, e + l) = SubSeq(s, 1, p + l)
<1> DEFINE t == SubSeq(s, 1, p)
           u == SubSeq(t, e + 1, e + l)
           w == SubSeq(s, p + 1, p + l)
<1>1. Len(s) \in Nat /\ p \in Nat /\ p + l \in p..Len(s) /\ p <= Len(s)
  BY LenProperties
<1>2. t \in Seq(Nat) /\ Len(t) = p /\ \A i \in 1..p : t[i] = s[i]
  BY <1>1, BlockParts
<1>3. w \in Seq(Nat) /\ Len(w) = l /\ (\A i \in 1..l : w[i] = s[p + i]) /\ t \o w = SubSeq(s, 1, p + l)
  <2>1. (p + l) - p = l
    BY <1>1
  <2> DEFINE b == p + l
  <2>2. b \in p..Len(s)
    BY <1>1
  <2> HIDE DEF b
  <2>3. /\ SubSeq(s, p + 1, b) \in Seq(Nat) /\ Len(SubSeq(s, p + 1, b)) = b - p
        /\ \A i \in 1..(b - p) : SubSeq(s, p + 1, b)[i] = s[p + i]
        /\ SubSeq(s, 1, p) \o SubSeq(s, p + 1, b) = SubSeq(s, 1, b)
    BY <2>2, BlockParts
  <2> QED BY <2>1, <2>3 DEF b
<1> HIDE DEF t
<1>4. u \in Seq(Nat) /\ Len(u) = l /\ \A i \in 1..l : u[i] = t[e + i]
  <2> DEFINE b == e + l
  <2>1. (e + l) - e = l
    OBVIOUS
  <2>2. e \in 0..Len(t) /\ b \in e..Len(t)
    BY <1>1, <1>2
  <2> HIDE DEF b
  <2>3. /\ SubSeq(t, e + 1, b) \in Seq(Nat) /\ Len(SubSeq(t, e + 1, b)) = b - e
        /\ \A i \in 1..(b - e) : SubSeq(t, e + 1, b)[i] = t[e + i]
    BY <1>2, <2>2, BlockParts
  <2> QED BY <2>1, <2>3 DEF b
<1> HIDE DEF u, w
<1>5. \A i \in 1..l : u[i] = w[i]
  <2>1. \A i \in 1..l : e + i \in 1..p
    BY <1>1
  <2> QED BY <1>2, <1>3, <1>4, <2>1
<1>6. u = w
  BY <1>3, <1>4, <1>5, SeqEqual
<1> QED BY <1>3, <1>6 DEF t, u

-----------------------------------------------------------------------------
(* What has been written so far leads a decompressor to where the           *)
(* compressor is, whatever follows.                                         *)

\* A decompressor that has read all but the pending literals.
Current(items, prev, out, r, max) ==
  Reading(r, SubSeq(block, 1, position - Len(literal)), SubSeq(items, 1, number - Len(literal)), prev, out, max)

\* The output of the earlier blocks, the checksum before this block and the
\* positions of its items.
Recorded(out, prev, items) ==
  /\ out \in Seq(Nat) /\ prev \in Nat /\ items \in Seq(Nat)
  /\ input = (out \o block) \o rest
  /\ checksum = IF block = <<>> THEN prev ELSE Hash(block, prev)
  /\ Len(block) = BlockSize \/ rest = <<>> \/ block = <<>>
  /\ phase = "blocks" => position = Len(block)
  /\ Len(items) = number
  /\ Len(literal) <= number /\ Len(literal) <= MaxLiterals
  /\ literal = SubSeq(block, position - Len(literal) + 1, position)
  /\ \A n \in 1..Len(literal) : items[number - Len(literal) + n] = position - Len(literal) + n - 1
  /\ \A e : Entered(e) => items[e.number + 1] = e.position

\* Refused because the output exceeds the limit.
Overrun(bytes, max) == \E e : Reaches(Fresh(bytes, max), e) /\ e.status = "refused" /\ e.maximum = max

\* From the start of a stream to a state of the decompressor, unless the
\* earlier blocks exceed its limit.
Leads(bytes, out, max, d) ==
  /\ Len(out) <= max => Reaches(Fresh(bytes, max), d)
  /\ Len(out) > max => Overrun(bytes, max)

\* The stream, with anything after it, leads there.
Follows(out, prev, items) ==
  \A r, max : r \in Seq(Nat) /\ max \in Nat =>
    Leads(stream \o r, out, max, Roll(Current(items, prev, out, r, max)))

\* A decompressor whose block starts again.
Renewed(d, sum, none) == [d EXCEPT !.checksum = sum, !.block = none, !.indices = none]

\* Nothing of the block is left.
LEMMA ReadingRenewed ==
  ASSUME NEW s, NEW B, NEW I, NEW old, NEW sum, NEW out, NEW max, NEW none
  PROVE  Renewed(Reading(s, B, I, old, out, max), sum, none) = Reading(s, none, none, sum, out, max)
<1> DEFINE A(d, x) == [d EXCEPT !.checksum = x]
           D(d, x) == [d EXCEPT !.block = x]
           E(d, x) == [d EXCEPT !.indices = x]
           d0 == Reading(s, B, I, old, out, max)
           d1 == Reading(s, B, I, sum, out, max)
           d2 == Reading(s, none, I, sum, out, max)
           d3 == Reading(s, none, none, sum, out, max)
<1>1. A(d0, sum) = d1
  BY DEF Reading
<1>2. D(d1, none) = d2
  BY DEF Reading
<1>3. E(d2, none) = d3
  BY DEF Reading
<1>4. Renewed(d0, sum, none) = E(D(A(d0, sum), none), none)
  <2> HIDE DEF d0
  <2> QED BY DEF Renewed
<1> HIDE DEF A, D, E, d0, d1, d2, d3
<1>5. Renewed(d0, sum, none) = d3
  BY <1>1, <1>2, <1>3, <1>4
<1> QED BY <1>5 DEF d0, d3

\* The end of a full block (Decompressor::append).
LEMMA RollReads ==
  ASSUME NEW r, NEW B, NEW I, NEW sum, NEW out, NEW max,
         B \in Seq(Nat), out \in Seq(Nat), max \in Nat
  PROVE  /\ Len(B) # BlockSize => Roll(Reading(r, B, I, sum, out, max)) = Reading(r, B, I, sum, out, max)
         /\ Len(B) = BlockSize /\ Len(out) + Len(B) <= max =>
              Roll(Reading(r, B, I, sum, out, max)) = Reading(r, <<>>, <<>>, Hash(B, sum), out \o B, max)
         /\ Len(B) = BlockSize /\ ~(Len(out) + Len(B) <= max) =>
              /\ Roll(Reading(r, B, I, sum, out, max)).status = "refused"
              /\ Roll(Reading(r, B, I, sum, out, max)).maximum = max
<1> DEFINE d == Reading(r, B, I, sum, out, max)
<1>1. d.block = B /\ d.output = out /\ d.maximum = max /\ d.status = "reading" /\ d.checksum = sum
  BY DEF Reading
<1>2. Len(B) \in Nat /\ Len(out) \in Nat
  BY LenProperties
<1>3. Len(out) + Len(B) <= max <=> ~(Len(d.block) > d.maximum - Len(d.output))
  BY <1>1, <1>2
<1>4. ASSUME Len(B) # BlockSize
      PROVE  Roll(d) = d
  BY <1>1, <1>4 DEF Roll
<1>5. ASSUME Len(B) = BlockSize, Len(out) + Len(B) <= max
      PROVE  Roll(d) = Reading(r, <<>>, <<>>, Hash(B, sum), out \o B, max)
  <2> DEFINE a == Reading(r, B, I, sum, out \o B, max)
  <2>1. AppendBlock(d) = [d EXCEPT !.output = out \o B]
    BY <1>1, <1>3, <1>5 DEF AppendBlock
  <2>2. AppendBlock(d) = a
    BY <2>1 DEF Reading
  <2>3. a.status = "reading" /\ a.checksum = sum
    BY DEF Reading
  <2>4. Renewed(a, Hash(B, sum), <<>>) = Reading(r, <<>>, <<>>, Hash(B, sum), out \o B, max)
    BY ReadingRenewed
  <2> HIDE DEF a, d
  <2>5. Roll(d) = Renewed(a, Hash(B, sum), <<>>)
    BY <1>1, <1>5, <2>2, <2>3 DEF Roll, Renewed
  <2> QED BY <2>4, <2>5
<1>6. ASSUME Len(B) = BlockSize, ~(Len(out) + Len(B) <= max)
      PROVE  Roll(d).status = "refused" /\ Roll(d).maximum = max
  <2>1. AppendBlock(d) = Refuse(d)
    BY <1>3, <1>6 DEF AppendBlock
  <2>2. Refuse(d).status = "refused" /\ Refuse(d).maximum = max
    BY DEF Refuse, Reading
  <2> HIDE DEF d
  <2>3. Roll(d) = Refuse(d)
    BY <1>1, <1>6, <2>1, <2>2 DEF Roll
  <2> QED BY <2>2, <2>3
<1> QED BY <1>4, <1>5, <1>6

\* The checksum of all blocks, the last one included.
Sealed(sent, B, sum) == sent = IF B = <<>> THEN sum ELSE Hash(B, sum)

\* What a decompressor says at the end of these bytes.
Closed(e, B, out, max) ==
  /\ e.maximum = max
  /\ Len(out) + Len(B) <= max => e.status = "done" /\ e.output = out \o B
  /\ ~(Len(out) + Len(B) <= max) => e.status = "refused"

\* The end of the stream.
LEMMA CloseReads ==
  ASSUME NEW B, NEW I, NEW sum, NEW out, NEW max, NEW sent,
         B \in Seq(Nat), out \in Seq(Nat), max \in Nat, sent \in Nat, Sealed(sent, B, sum)
  PROVE  Closed(DecodeStep(Reading(<<0, sent>>, B, I, sum, out, max)), B, out, max)
<1> DEFINE c == Reading(<<0, sent>>, B, I, sum, out, max)
           d == Reading(<<sent>>, B, I, sum, out, max)
<1>1. /\ d.block = B /\ d.output = out /\ d.maximum = max /\ d.status = "reading" /\ d.checksum = sum
      /\ d.rest = <<sent>> /\ c.rest = <<0, sent>>
  BY DEF Reading
<1>2. Len(B) \in Nat /\ Len(out) \in Nat
  BY LenProperties
<1>3. Len(out) + Len(B) <= max <=> ~(Len(d.block) > d.maximum - Len(d.output))
  BY <1>1, <1>2
<1>4. From(c, <<sent>>) = d
  BY ReadingRest
<1>5. DecodeStep(c) = Close(From(c, <<sent>>))
  <2>1. c.rest # <<>> /\ Head(c.rest) = 0 /\ Tail(c.rest) = <<sent>>
    <3>1. <<0, sent>> # <<>> /\ Head(<<0, sent>>) = 0
      OBVIOUS
    <3>2. Tail(<<0, sent>>) = <<sent>>
      OBVIOUS
    <3> HIDE DEF c
    <3> QED BY <1>1, <3>1, <3>2
  <2> HIDE DEF c
  <2> QED BY <2>1 DEF DecodeStep, From
<1>6. ~(Len(d.rest) # 1 \/ Head(d.rest) # (IF d.block = <<>> THEN d.checksum ELSE Hash(d.block, d.checksum)))
  <2>1. Len(<<sent>>) = 1 /\ Head(<<sent>>) = sent
    OBVIOUS
  <2> HIDE DEF d
  <2> QED BY <1>1, <2>1 DEF Sealed
<1>7. Close(d) = IF AppendBlock(d).status = "refused" THEN AppendBlock(d)
                 ELSE [AppendBlock(d) EXCEPT !.status = "done"]
  <2> HIDE DEF d
  <2> QED BY <1>6, Zenon DEF Close
<1>8. DecodeStep(c) = Close(d)
  BY <1>4, <1>5
<1>9. ASSUME Len(out) + Len(B) <= max
      PROVE  Close(d).maximum = max /\ Close(d).status = "done" /\ Close(d).output = out \o B
  <2>1. AppendBlock(d) = [d EXCEPT !.output = out \o B]
    <3> HIDE DEF d
    <3> QED BY <1>1, <1>3, <1>9 DEF AppendBlock
  <2> DEFINE a == Reading(<<sent>>, B, I, sum, out \o B, max)
  <2>2. AppendBlock(d) = a
    BY <2>1 DEF Reading
  <2>3. a.status = "reading"
    BY DEF Reading
  <2>4. LET e == [a EXCEPT !.status = "done"]
        IN  e.maximum = max /\ e.status = "done" /\ e.output = out \o B
    BY DEF Reading
  <2> HIDE DEF a, d
  <2>5. Close(d) = [a EXCEPT !.status = "done"]
    BY <1>7, <2>2, <2>3
  <2> QED BY <2>4, <2>5
<1>10. ASSUME ~(Len(out) + Len(B) <= max)
       PROVE  Close(d).maximum = max /\ Close(d).status = "refused"
  <2>1. AppendBlock(d) = Refuse(d)
    <3> HIDE DEF d
    <3> QED BY <1>3, <1>10 DEF AppendBlock
  <2>2. Refuse(d).status = "refused" /\ Refuse(d).maximum = max
    BY DEF Refuse, Reading
  <2> HIDE DEF d
  <2> QED BY <1>7, <2>1, <2>2
<1> HIDE DEF c, d
<1>11. DecodeStep(c) = Close(d) /\ (Len(out) + Len(B) <= max \/ ~(Len(out) + Len(B) <= max))
  BY <1>8
<1> QED BY <1>9, <1>10, <1>11 DEF Closed, c

\* The place of the pending literals in the block and among its items.
LEMMA PendingPlace ==
  ASSUME EncoderSound, NEW out, NEW prev, NEW items, Recorded(out, prev, items)
  PROVE  /\ position \in Nat /\ number \in Nat /\ Len(block) \in Nat /\ Len(literal) \in Nat
         /\ position <= Len(block) /\ Len(block) <= BlockSize /\ number <= position
         /\ position - Len(literal) \in Nat /\ number - Len(literal) \in Nat
         /\ SubSeq(block, 1, position - Len(literal)) \in Seq(Nat)
         /\ Len(SubSeq(block, 1, position - Len(literal))) = position - Len(literal)
         /\ SubSeq(items, 1, number - Len(literal)) \in Seq(Nat)
         /\ SubSeq(block, 1, position - Len(literal)) \o literal = SubSeq(block, 1, position)
<1> DEFINE L == Len(literal)
           p == position - L
<1>1. /\ position \in Nat /\ number \in Nat /\ Len(block) \in Nat /\ L \in Nat
      /\ position <= Len(block) /\ Len(block) <= BlockSize /\ number <= position /\ L <= number
      /\ Len(items) = number /\ items \in Seq(Nat) /\ block \in Seq(Nat)
  BY LenProperties DEF EncoderSound, Recorded
<1>2. p \in 0..Len(block) /\ position \in p..Len(block) /\ p \in Nat /\ number - L \in Nat /\ number - L \in 0..Len(items)
  BY <1>1
<1>3. literal = SubSeq(block, p + 1, position)
  BY DEF Recorded
<1> HIDE DEF p
<1>4. /\ SubSeq(block, 1, p) \in Seq(Nat) /\ Len(SubSeq(block, 1, p)) = p
      /\ SubSeq(block, 1, p) \o SubSeq(block, p + 1, position) = SubSeq(block, 1, position)
  BY <1>1, <1>2, BlockParts
<1>5. SubSeq(items, 1, number - L) \in Seq(Nat)
  <2> DEFINE k == number - L
  <2>1. k \in 0..Len(items) /\ Len(items) \in k..Len(items)
    BY <1>1, <1>2
  <2> HIDE DEF k
  <2> QED BY <1>1, <2>1, BlockParts DEF k
<1>6. SubSeq(block, 1, p) \o literal = SubSeq(block, 1, position)
  BY <1>3, <1>4
<1> QED BY <1>1, <1>2, <1>4, <1>5, <1>6 DEF p

\* The pending literals are numbered as the compressor numbered them.
LEMMA PendingNumbered ==
  ASSUME EncoderSound, NEW out, NEW prev, NEW items, Recorded(out, prev, items)
  PROVE  Numbered(SubSeq(items, 1, number - Len(literal)), Len(literal),
                  Len(SubSeq(block, 1, position - Len(literal)))) = items
<1> DEFINE L == Len(literal)
           p == position - L
           k == number - L
           more == [n \in 1..L |-> Len(SubSeq(block, 1, p)) + n - 1]
<1>1. L \in Nat /\ k \in Nat /\ p \in Nat /\ Len(SubSeq(block, 1, p)) = p /\ k + L = number
  BY PendingPlace
<1>2. /\ items \in Seq(Nat) /\ Len(items) = number
      /\ \A n \in 1..L : items[k + n] = p + n - 1
  BY DEF Recorded
<1> HIDE DEF L, p, k
<1>3. k \in 0..Len(items) /\ Len(items) \in k..Len(items) /\ Len(items) - k = L
  BY <1>1, <1>2
<1>4. /\ SubSeq(items, 1, k) \in Seq(Nat)
      /\ SubSeq(items, k + 1, Len(items)) \in Seq(Nat) /\ Len(SubSeq(items, k + 1, Len(items))) = L
      /\ \A n \in 1..L : SubSeq(items, k + 1, Len(items))[n] = items[k + n]
      /\ SubSeq(items, 1, k) \o SubSeq(items, k + 1, Len(items)) = SubSeq(items, 1, Len(items))
  BY <1>2, <1>3, BlockParts
<1>5. more \in Seq(Nat) /\ Len(more) = L /\ \A n \in 1..L : more[n] = p + n - 1
  <2>1. \A n \in 1..L : Len(SubSeq(block, 1, p)) + n - 1 \in Nat
    BY <1>1
  <2>2. more \in Seq(Nat)
    BY <1>1, <2>1, IsASeq
  <2>3. \A n \in 1..L : more[n] = p + n - 1
    BY <1>1
  <2>4. Len(more) = L
    BY <1>1, <2>2, LenProperties
  <2> QED BY <2>2, <2>3, <2>4
<1> DEFINE tail == SubSeq(items, k + 1, Len(items))
<1> HIDE DEF more
<1>6. tail = more
  <2>1. tail \in Seq(Nat) /\ Len(tail) = L /\ \A n \in 1..L : tail[n] = more[n]
    BY <1>2, <1>4, <1>5
  <2> HIDE DEF tail
  <2> QED BY <1>5, <2>1, SeqEqual
<1>7. SubSeq(items, 1, Len(items)) = items
  BY <1>2, SubSeqFull
<1>8. SubSeq(items, 1, k) \o more = items
  BY <1>4, <1>6, <1>7
<1> QED BY <1>8 DEF more, k, L, p, Numbered

\* What is flushed is read back.
LEMMA PendingReads ==
  ASSUME EncoderSound, NEW out, NEW prev, NEW items, Recorded(out, prev, items),
         NEW reference \in 0..Short, ~(Len(literal) = 0 /\ reference = 0),
         NEW r, NEW max, r \in Seq(Nat)
  PROVE  /\ Flushed(reference) \in Seq(Nat)
         /\ DecodeStep(Current(items, prev, out, Flushed(reference) \o r, max))
              = Roll(Reference(Reading(r, SubSeq(block, 1, position), items, prev, out, max), reference))
<1> DEFINE B == SubSeq(block, 1, position - Len(literal))
           I == SubSeq(items, 1, number - Len(literal))
<1>1. literal \in Seq(Nat) /\ Len(literal) <= MaxLiterals
  BY DEF EncoderSound, Recorded
<1>2. B \in Seq(Nat) /\ I \in Seq(Nat) /\ B \o literal = SubSeq(block, 1, position) /\ Len(B) + Len(literal) <= BlockSize
  <2>1. B \in Seq(Nat) /\ I \in Seq(Nat) /\ B \o literal = SubSeq(block, 1, position)
    BY PendingPlace
  <2>2. /\ Len(B) = position - Len(literal) /\ position \in Nat /\ Len(literal) \in Nat /\ Len(block) \in Nat
        /\ position <= Len(block) /\ Len(block) <= BlockSize
    BY PendingPlace
  <2> HIDE DEF B
  <2> QED BY <2>1, <2>2, Sizes
<1>3. Numbered(I, Len(literal), Len(B)) = items
  BY PendingNumbered
<1>4. Current(items, prev, out, Flushed(reference) \o r, max) = Reading(Flushed(reference) \o r, B, I, prev, out, max)
  BY DEF Current
<1> HIDE DEF B, I
<1>6. r \in Seq(Nat) /\ B \in Seq(Nat) /\ I \in Seq(Nat) /\ literal \in Seq(Nat)
      /\ ~(Len(literal) = 0 /\ reference = 0)
      /\ Len(literal) <= MaxLiterals /\ Len(B) + Len(literal) <= BlockSize
  BY <1>1, <1>2
<1>5. /\ Flushed(reference) \in Seq(Nat)
      /\ DecodeStep(Reading(Flushed(reference) \o r, B, I, prev, out, max))
           = Roll(Reference(Reading(r, B \o literal, Numbered(I, Len(literal), Len(B)), prev, out, max), reference))
  BY <1>6, FlushReadsBack
<1> QED BY <1>2, <1>3, <1>4, <1>5

\* Bytes that take the decompressor in one step to other bytes of its block
\* and other items.
Spells(F, out, prev, items, B, I) ==
  /\ F \in Seq(Nat)
  /\ \A r, max : r \in Seq(Nat) /\ max \in Nat =>
       DecodeStep(Current(items, prev, out, F \o r, max)) = Roll(Reading(r, B, I, prev, out, max))

\* They lead there when they are appended to the stream.
LEMMA Extends ==
  ASSUME EncoderSound, NEW out, NEW prev, NEW items, Recorded(out, prev, items), Follows(out, prev, items),
         position - Len(literal) # BlockSize, NEW F, NEW B, NEW I,
         Spells(F, out, prev, items, B, I)
  PROVE  \A r, max : r \in Seq(Nat) /\ max \in Nat =>
           Leads((stream \o F) \o r, out, max, Roll(Reading(r, B, I, prev, out, max)))
<1> SUFFICES ASSUME NEW r, NEW max, r \in Seq(Nat), max \in Nat
             PROVE  Leads((stream \o F) \o r, out, max, Roll(Reading(r, B, I, prev, out, max)))
  OBVIOUS
<1> DEFINE c == Current(items, prev, out, F \o r, max)
<1>1. stream \in Seq(Nat) /\ out \in Seq(Nat) /\ F \in Seq(Nat) /\ F \o r \in Seq(Nat)
  BY ConcatProperties DEF EncoderSound, Recorded, Spells
<1>2. (stream \o F) \o r = stream \o (F \o r)
  <2>1. Join(Join(stream, F), r) = Join(stream, Join(F, r))
    BY <1>1, JoinAssociative
  <2> QED BY <2>1 DEF Join
<1>3. Leads(stream \o (F \o r), out, max, Roll(c))
  BY <1>1 DEF Follows
<1>4. Roll(c) = c /\ c.status = "reading"
  <2>1. /\ SubSeq(block, 1, position - Len(literal)) \in Seq(Nat)
        /\ Len(SubSeq(block, 1, position - Len(literal))) # BlockSize
    BY PendingPlace
  <2>2. Roll(c) = c
    <3>1. c.block = SubSeq(block, 1, position - Len(literal))
      BY DEF Current, Reading
    <3> HIDE DEF c
    <3> QED BY <2>1, <3>1 DEF Roll
  <2>3. c.status = "reading"
    BY DEF Current, Reading
  <2> QED BY <2>2, <2>3
<1>5. DecodeStep(c) = Roll(Reading(r, B, I, prev, out, max))
  BY DEF Spells
<1> HIDE DEF c
<1>6. Len(out) <= max => Reaches(Fresh(stream \o (F \o r), max), DecodeStep(c))
  BY <1>3, <1>4, ReachesNext DEF Leads
<1>7. Len(out) > max => Overrun(stream \o (F \o r), max)
  BY <1>3 DEF Leads
<1> QED BY <1>2, <1>5, <1>6, <1>7 DEF Leads

\* What a key holds after an entry was put before all or all but the last.
LEMMA EntryAdded ==
  ASSUME NEW T, NEW entry, entry \in T, NEW s, s \in Seq(T), s # <<>>, NEW t, t \in {<<entry>> \o s, <<entry>> \o Front(s)}
  PROVE  \A i \in 1..Len(t) : t[i] = entry \/ \E j \in 1..Len(s) : t[i] = s[j]
<1>1. Len(s) \in Nat /\ Len(s) > 0
  BY LenProperties, EmptySeq
<1>2. <<entry>> \in Seq(T) /\ Len(<<entry>>) = 1 /\ <<entry>>[1] = entry
  OBVIOUS
<1>3. /\ Front(s) \in Seq(T) /\ Len(Front(s)) = Len(s) - 1
      /\ \A i \in 1..(Len(s) - 1) : Front(s)[i] = s[i]
  <2> DEFINE l == Len(s) - 1
  <2>1. l \in Nat /\ 1 \in Int /\ l \in Int /\ \A i \in 1..l : i \in 1..Len(s)
    BY <1>1
  <2>2. \A i \in 1..l : s[i] \in T
    BY <2>1, ElementOfSeq
  <2>3. Front(s) = SubSeq(s, 1, l)
    BY DEF Front
  <2> HIDE DEF l
  <2>4. /\ SubSeq(s, 1, l) \in Seq(T) /\ Len(SubSeq(s, 1, l)) = IF 1 <= l THEN l - 1 + 1 ELSE 0
        /\ \A i \in 1..(l - 1 + 1) : SubSeq(s, 1, l)[i] = s[1 + i - 1]
    BY <2>1, <2>2, SubSeqProperties
  <2>5. l - 1 + 1 = l /\ (1 <= l \/ l = 0) /\ \A i \in 1..l : 1 + i - 1 = i
    BY <2>1
  <2>6. Front(s) \in Seq(T) /\ Len(Front(s)) = l
    BY <2>3, <2>4, <2>5
  <2>7. \A i \in 1..l : Front(s)[i] = s[i]
    BY <2>3, <2>4, <2>5
  <2> QED BY <2>6, <2>7 DEF l
<1>4. ASSUME NEW u, u \in Seq(T), Len(u) <= Len(s), \A i \in 1..Len(u) : u[i] = s[i],
             NEW i \in 1..Len(<<entry>> \o u)
      PROVE  (<<entry>> \o u)[i] = entry \/ \E j \in 1..Len(s) : (<<entry>> \o u)[i] = s[j]
  <2>1. Len(u) \in Nat
    BY <1>4, LenProperties
  <2>2. /\ Len(<<entry>> \o u) = 1 + Len(u)
        /\ \A n \in 1..(1 + Len(u)) : (<<entry>> \o u)[n] = IF n <= 1 THEN <<entry>>[n] ELSE u[n - 1]
    BY <1>2, <1>4, ConcatProperties
  <2>3. CASE i <= 1
    <3>1. i = 1 /\ i \in 1..(1 + Len(u))
      BY <1>4, <2>1, <2>2, <2>3
    <3> QED BY <1>2, <2>2, <3>1
  <2>4. CASE ~(i <= 1)
    <3>1. i \in 1..(1 + Len(u)) /\ i - 1 \in 1..Len(u) /\ i - 1 \in 1..Len(s)
      BY <1>1, <1>4, <2>1, <2>2, <2>4
    <3>2. (<<entry>> \o u)[i] = s[i - 1]
      BY <1>4, <2>2, <2>4, <3>1
    <3> QED BY <3>1, <3>2
  <2> QED BY <2>3, <2>4
<1>5. CASE t = <<entry>> \o s
  <2>1. Len(s) <= Len(s)
    BY <1>1
  <2> QED BY <1>4, <1>5, <2>1
<1>6. CASE t = <<entry>> \o Front(s)
  <2>1. Len(Front(s)) <= Len(s)
    BY <1>1, <1>3
  <2> QED BY <1>3, <1>4, <1>6, <2>1
<1> QED BY <1>5, <1>6

\* An entry of the table is one it had, or the one of this item.
LEMMA InsertEntered ==
  ASSUME EncoderSound, position < Len(block), Insert
  PROVE  \A e : Entered(e)' => Entered(e) \/ e = [position |-> position, number |-> number]
<1> DEFINE Old == EntriesBefore(position, number)
           bytes == SubSeq(block, position + 1, position + MinMatch)
           key == KeyOf(bytes)
           entry == [position |-> position, number |-> number]
           T == Old \cup {entry}
<1>1. chains \in [0..(TableSize - 1) -> Seq(Old)]
  BY DEF EncoderSound
<1>2. ASSUME NEW k \in 0..(TableSize - 1), NEW i \in 1..Len(chains[k])
      PROVE  Entered(chains[k][i])
  <2>1. chains[k] \in Seq(Old)
    BY <1>1
  <2>2. chains[k][i] \in Old
    BY <2>1, ElementOfSeq
  <2> HIDE DEF Old
  <2> QED BY <2>2 DEF Entered, Old
<1> SUFFICES ASSUME NEW e, Entered(e)'
             PROVE  Entered(e) \/ e = entry
  OBVIOUS
<1>3. PICK k \in 0..(TableSize - 1) : \E i \in 1..Len(chains'[k]) : e = chains'[k][i]
  BY DEF Entered
<1>4. PICK i \in 1..Len(chains'[k]) : e = chains'[k][i]
  BY <1>3
<1> HIDE DEF entry, Old
<1>5. CASE chains'[k] = chains[k]
  BY <1>2, <1>4, <1>5
<1>6. CASE chains'[k] # chains[k]
  <2>1. chains' = [chains EXCEPT ![key] = IF free > 0 THEN <<entry>> \o chains[key]
                                          ELSE IF chains[key] = <<>> THEN chains[key]
                                          ELSE <<entry>> \o Front(chains[key])]
    <3>1. ~(position + MinMatch > Len(block))
      BY <1>6 DEF Insert
    <3> QED BY <3>1 DEF Insert, entry
  <2> HIDE DEF key
  <2>2. k = key /\ k \in DOMAIN chains
    BY <1>1, <1>6, <2>1
  <2>3. \/ chains'[k] = <<entry>> \o chains[k]
        \/ chains[k] # <<>> /\ chains'[k] = <<entry>> \o Front(chains[k])
    BY <1>6, <2>1, <2>2
  <2>4. entry \in T /\ chains[k] \in Seq(T)
    <3>1. chains[k] \in Seq(Old) /\ Old \subseteq T /\ entry \in T
      BY <1>1
    <3> HIDE DEF T
    <3> QED BY <3>1, SeqMonotonic
  <2> HIDE DEF T
  <2>5. CASE chains[k] = <<>>
    <3>1. chains'[k] = <<entry>>
      <4>1. <<entry>> \in Seq(T)
        BY <2>4
      <4>2. <<entry>> \o <<>> = <<entry>>
        BY <4>1, ConcatEmptySeq
      <4> QED BY <2>3, <2>5, <4>2
    <3>2. Len(<<entry>>) = 1 /\ <<entry>>[1] = entry
      OBVIOUS
    <3> QED BY <1>4, <3>1, <3>2
  <2>6. CASE chains[k] # <<>>
    <3>1. e = entry \/ \E j \in 1..Len(chains[k]) : e = chains[k][j]
      <4>1. chains'[k] \in {<<entry>> \o chains[k], <<entry>> \o Front(chains[k])}
        BY <2>3
      <4> DEFINE s == chains[k]
                 u == chains'[k]
      <4>2. entry \in T /\ s \in Seq(T) /\ s # <<>> /\ u \in {<<entry>> \o s, <<entry>> \o Front(s)}
        BY <2>4, <2>6, <4>1
      <4> HIDE DEF s, u
      <4>3. \A n \in 1..Len(u) : u[n] = entry \/ \E j \in 1..Len(s) : u[n] = s[j]
        BY <4>2, EntryAdded
      <4> QED BY <1>4, <4>3 DEF s, u
    <3> QED BY <1>2, <3>1
  <2> QED BY <2>5, <2>6
<1> QED BY <1>5, <1>6 DEF entry

\* The entries of the table are recorded.
Placed(w) == \A e : Entered(e) => w[e.number + 1] = e.position

\* The record of item positions grows with the table.
LEMMA ItemAdded ==
  ASSUME EncoderSound, NEW out, NEW prev, NEW items, Recorded(out, prev, items),
         NEW w, w = Append(items, position)
  PROVE  /\ w \in Seq(Nat) /\ Len(w) = number + 1
         /\ w[number + 1] = position
         /\ \A i \in 1..number : w[i] = items[i]
         /\ Placed(w)
<1>1. items \in Seq(Nat) /\ Len(items) = number /\ number \in Nat /\ position \in Nat
  BY PendingPlace DEF Recorded
<1>2. w \in Seq(Nat) /\ Len(w) = number + 1 /\ w[number + 1] = position /\ \A i \in 1..number : w[i] = items[i]
  BY <1>1, AppendProperties
<1>3. ASSUME NEW e, Entered(e)
      PROVE  w[e.number + 1] = e.position
  <2>1. e.number \in 0..(number - 1)
    BY <1>3 DEF Entered, EntriesBefore
  <2>2. e.number + 1 \in 1..number
    BY <1>1, <2>1
  <2>3. items[e.number + 1] = e.position
    BY <1>3 DEF Recorded
  <2> QED BY <1>2, <2>2, <2>3
<1> QED BY <1>2, <1>3 DEF Placed

\* Sequences with the same beginning.
LEMMA PrefixSame ==
  ASSUME NEW s, NEW w, NEW k \in Nat, s \in Seq(Nat), w \in Seq(Nat), k <= Len(s), k <= Len(w),
         \A i \in 1..k : w[i] = s[i]
  PROVE  SubSeq(w, 1, k) = SubSeq(s, 1, k)
<1> DEFINE a == SubSeq(s, 1, k)
           b == SubSeq(w, 1, k)
<1>1. Len(s) \in Nat /\ Len(w) \in Nat /\ k \in 0..Len(s) /\ k \in 0..Len(w) /\ k \in k..Len(s) /\ k \in k..Len(w)
  BY LenProperties
<1>2. a \in Seq(Nat) /\ Len(a) = k /\ \A i \in 1..k : a[i] = s[i]
  BY <1>1, BlockParts
<1>3. b \in Seq(Nat) /\ Len(b) = k /\ \A i \in 1..k : b[i] = w[i]
  BY <1>1, BlockParts
<1> HIDE DEF a, b
<1>4. b = a
  <2>1. \A i \in 1..k : b[i] = a[i]
    BY <1>2, <1>3
  <2> QED BY <1>2, <1>3, <2>1, SeqEqual
<1> QED BY <1>4 DEF a, b

\* No reference follows literals that are flushed alone.
LEMMA NoReference ==
  ASSUME NEW d
  PROVE  Reference(d, 0) = d
BY DEF Reference

\* Pending literals are flushed alone.
LEMMA FlushExtends ==
  ASSUME EncoderSound, NEW out, NEW prev, NEW items, Recorded(out, prev, items), Follows(out, prev, items),
         Len(literal) # 0
  PROVE  \A r, max : r \in Seq(Nat) /\ max \in Nat =>
           Leads((stream \o Flushed(0)) \o r, out, max,
                 Roll(Reading(r, SubSeq(block, 1, position), items, prev, out, max)))
<1>1. 0 \in 0..Short /\ ~(Len(literal) = 0 /\ 0 = 0)
  BY Sizes
<1>2. Flushed(0) \in Seq(Nat)
  <2>1. <<>> \in Seq(Nat)
    OBVIOUS
  <2> QED BY <1>1, <2>1, PendingReads
<1>3. ASSUME NEW r, NEW max, r \in Seq(Nat), max \in Nat
      PROVE  DecodeStep(Current(items, prev, out, Flushed(0) \o r, max))
               = Roll(Reading(r, SubSeq(block, 1, position), items, prev, out, max))
  <2> DEFINE d == Reading(r, SubSeq(block, 1, position), items, prev, out, max)
  <2>1. DecodeStep(Current(items, prev, out, Flushed(0) \o r, max)) = Roll(Reference(d, 0))
    BY <1>1, <1>3, PendingReads
  <2> HIDE DEF d
  <2> QED BY <2>1, NoReference DEF d
<1>4. position - Len(literal) # BlockSize
  <2>1. /\ position \in Nat /\ Len(literal) \in Nat /\ Len(block) \in Nat
        /\ position <= Len(block) /\ Len(block) <= BlockSize
    BY PendingPlace
  <2> QED BY <2>1, Sizes
<1> DEFINE F == Flushed(0)
           B == SubSeq(block, 1, position)
<1>5. Spells(F, out, prev, items, B, items)
  BY <1>2, <1>3 DEF Spells
<1> HIDE DEF F, B
<1>6. \A r, max : r \in Seq(Nat) /\ max \in Nat =>
        Leads((stream \o F) \o r, out, max, Roll(Reading(r, B, items, prev, out, max)))
  BY <1>4, <1>5, Extends
<1> QED BY <1>6 DEF F, B

\* A literal waits, or those before it are flushed.
LEMMA LiteralFollows ==
  ASSUME EncoderSound, EncodeLiteral, NEW out, NEW prev, NEW items, Recorded(out, prev, items),
         Follows(out, prev, items), NEW w, w = Append(items, position)
  PROVE  Recorded(out, prev, w)' /\ Follows(out, prev, w)'
<1> DEFINE L == Len(literal)
           byte == block[position + 1]
<1>1. /\ position < Len(block) /\ phase' = "encode" /\ position' = position + 1 /\ Insert
      /\ input' = input /\ rest' = rest /\ block' = block /\ checksum' = checksum
  BY DEF EncodeLiteral
<1>2. number' = number + 1
  BY <1>1 DEF Insert
<1>3. /\ position \in Nat /\ number \in Nat /\ Len(block) \in Nat /\ L \in Nat /\ number <= position
      /\ position - L \in Nat /\ number - L \in Nat /\ Len(block) <= BlockSize
  BY PendingPlace
<1>4. /\ w \in Seq(Nat) /\ Len(w) = number + 1 /\ w[number + 1] = position
      /\ \A i \in 1..number : w[i] = items[i]
      /\ \A e : Entered(e)' => w[e.number + 1] = e.position
  <2>1. w \in Seq(Nat) /\ Len(w) = number + 1 /\ w[number + 1] = position
    BY ItemAdded
  <2>2. \A i \in 1..number : w[i] = items[i]
    BY ItemAdded
  <2>3. ASSUME NEW e, Entered(e)'
        PROVE  w[e.number + 1] = e.position
    <3>1. Entered(e) \/ e = [position |-> position, number |-> number]
      BY <1>1, <2>3, InsertEntered
    <3>2. CASE Entered(e)
      <4>1. Placed(w)
        BY ItemAdded
      <4> QED BY <3>2, <4>1 DEF Placed
    <3>3. CASE e = [position |-> position, number |-> number]
      BY <2>1, <3>3
    <3> QED BY <3>1, <3>2, <3>3
  <2> QED BY <2>1, <2>2, <2>3
<1>5. /\ out \in Seq(Nat) /\ prev \in Nat /\ items \in Seq(Nat) /\ Len(items) = number
      /\ input = (out \o block) \o rest
      /\ checksum = IF block = <<>> THEN prev ELSE Hash(block, prev)
      /\ Len(block) = BlockSize \/ rest = <<>> \/ block = <<>>
      /\ L <= number /\ L <= MaxLiterals
      /\ literal = SubSeq(block, position - L + 1, position)
      /\ \A n \in 1..L : items[number - L + n] = position - L + n - 1
  BY DEF Recorded
<1>6. block \in Seq(Nat) /\ literal \in Seq(Nat) /\ byte \in Nat
  <2>1. block \in Seq(Nat) /\ literal \in Seq(Nat)
    BY DEF EncoderSound
  <2>2. position + 1 \in 1..Len(block)
    BY <1>1, <1>3
  <2> QED BY <2>1, <2>2, ElementOfSeq
<1>7. CASE L # MaxLiterals
  <2>1. literal' = Append(literal, byte) /\ stream' = stream
    BY <1>7 DEF EncodeLiteral
  <2>2. Len(literal') = L + 1
    BY <1>6, <2>1, AppendProperties
  <2>3. position' - Len(literal') = position - L /\ number' - Len(literal') = number - L
    BY <1>1, <1>2, <1>3, <2>2
  <2>4. literal' = SubSeq(block, position - L + 1, position + 1)
    <3> DEFINE m == position - L + 1
               n == position + 1
    <3>1. m \in 1..Len(block) /\ n \in m..Len(block) /\ n - 1 = position
      BY <1>1, <1>3
    <3> HIDE DEF m, n
    <3>2. SubSeq(block, m, n) = SubSeq(block, m, n - 1) \o <<block[n]>>
      BY <1>6, <3>1, SubSeqRecursiveSecond
    <3>3. Append(literal, byte) = literal \o <<byte>>
      BY <1>6, AppendIsConcat
    <3> QED BY <1>5, <2>1, <3>1, <3>2, <3>3 DEF m, n
  <2>5. ASSUME NEW n \in 1..(L + 1)
        PROVE  w[number - L + n] = position - L + n - 1
    <3>1. CASE n = L + 1
      <4>1. number - L + n = number + 1 /\ position - L + n - 1 = position
        BY <1>3, <3>1
      <4> QED BY <1>4, <4>1
    <3>2. CASE n # L + 1
      <4>1. n \in 1..L /\ number - L + n \in 1..number
        BY <1>3, <3>2
      <4> QED BY <1>4, <1>5, <4>1
    <3> QED BY <3>1, <3>2
  <2>6. L + 1 <= number' /\ L + 1 <= MaxLiterals
    <3> HIDE DEF L
    <3> QED BY <1>2, <1>3, <1>5, <1>7, Sizes
  <2>7. Recorded(out, prev, w)'
    <3>1. literal' = SubSeq(block', position' - Len(literal') + 1, position')
      BY <1>1, <2>3, <2>4
    <3>2. \A n \in 1..Len(literal') : w[number' - Len(literal') + n] = position' - Len(literal') + n - 1
      BY <2>2, <2>3, <2>5
    <3>3. phase' # "blocks"
      BY <1>1
    <3> HIDE DEF L
    <3> QED BY <1>1, <1>2, <1>4, <1>5, <2>2, <2>6, <3>1, <3>2, <3>3 DEF Recorded
  <2>8. SubSeq(w, 1, number - L) = SubSeq(items, 1, number - L)
    <3> DEFINE k == number - L
    <3>1. k \in Nat /\ k <= Len(items) /\ k <= Len(w) /\ \A i \in 1..k : i \in 1..number
      BY <1>3, <1>4, <1>5
    <3>2. \A i \in 1..k : w[i] = items[i]
      BY <1>4, <3>1
    <3> HIDE DEF k
    <3> QED BY <1>4, <1>5, <3>1, <3>2, PrefixSame DEF k
  <2>9. \A r, max : Current(w, prev, out, r, max)' = Current(items, prev, out, r, max)
    BY <1>1, <2>3, <2>8 DEF Current
  <2> QED BY <2>1, <2>7, <2>9 DEF Follows
<1>8. CASE L = MaxLiterals
  <2>1. literal' = <<byte>> /\ stream' = stream \o Flushed(0)
    BY <1>8 DEF EncodeLiteral
  <2>2. Len(literal') = 1 /\ literal'[1] = byte
    BY <2>1
  <2>3. position' - Len(literal') = position /\ number' - Len(literal') = number
    BY <1>1, <1>2, <1>3, <2>2
  <2>4. literal' = SubSeq(block, position + 1, position + 1)
    <3> DEFINE m == position + 1
    <3>1. m \in 1..Len(block) /\ m \in m..Len(block) /\ m - 1 < m /\ m \in Int /\ m - 1 \in Int
      BY <1>1, <1>3
    <3> HIDE DEF m
    <3>2. SubSeq(block, m, m) = SubSeq(block, m, m - 1) \o <<block[m]>>
      BY <1>6, <3>1, SubSeqRecursiveSecond
    <3>3. SubSeq(block, m, m - 1) = <<>>
      BY <3>1, SubSeqEmpty
    <3>4. <<>> \o <<byte>> = <<byte>>
      <4>1. <<byte>> \in Seq(Nat)
        BY <1>6
      <4> QED BY <4>1, ConcatEmptySeq
    <3> QED BY <2>1, <3>2, <3>3, <3>4 DEF m
  <2>5. MaxLiterals > 0
    BY SizeAssumption
  <2>6. Recorded(out, prev, w)'
    <3>1. literal' = SubSeq(block', position' - Len(literal') + 1, position')
      BY <1>1, <2>3, <2>4
    <3>2. \A n \in 1..Len(literal') : w[number' - Len(literal') + n] = position' - Len(literal') + n - 1
      <4>1. \A n \in 1..1 : n = 1 /\ position + n - 1 = position
        BY <1>3
      <4> QED BY <1>4, <2>2, <2>3, <4>1
    <3>3. phase' # "blocks"
      BY <1>1
    <3>4. Len(literal') <= number' /\ Len(literal') <= MaxLiterals
      BY <1>2, <1>3, <2>2, <2>5, Sizes
    <3> HIDE DEF L
    <3> QED BY <1>1, <1>2, <1>4, <1>5, <2>2, <3>1, <3>2, <3>3, <3>4 DEF Recorded
  <2>7. SubSeq(w, 1, number) = items
    <3>1. SubSeq(w, 1, number) = SubSeq(items, 1, number)
      <4>1. number <= Len(items) /\ number <= Len(w)
        BY <1>3, <1>4, <1>5
      <4> QED BY <1>3, <1>4, <1>5, <4>1, PrefixSame
    <3>2. SubSeq(items, 1, number) = items
      BY <1>5, SubSeqFull
    <3> QED BY <3>1, <3>2
  <2>8. \A r, max : Current(w, prev, out, r, max)' = Reading(r, SubSeq(block, 1, position), items, prev, out, max)
    BY <1>1, <2>3, <2>7 DEF Current
  <2>9. \A r, max : r \in Seq(Nat) /\ max \in Nat =>
          Leads((stream \o Flushed(0)) \o r, out, max,
                Roll(Reading(r, SubSeq(block, 1, position), items, prev, out, max)))
    BY <1>8, <2>5, FlushExtends
  <2> QED BY <2>1, <2>6, <2>8, <2>9 DEF Follows
<1> QED BY <1>7, <1>8

\* What the best match says of the bytes at the position.
LEMMA BestFound ==
  ASSUME EncoderSound, position < Len(block), NEW out, NEW prev, NEW items, Recorded(out, prev, items),
         NEW best, best = BestMatch, best # None, NEW source, source = items[best.number + 1]
  PROVE  /\ best.length \in MinMatch..(Len(block) - position) /\ best.number \in 0..(number - 1)
         /\ source \in Nat /\ source + best.length <= position
         /\ \A n \in 1..best.length : block[source + n] = block[position + n]
<1>1. best \in Matches
  BY BestMatchTyped
<1>2. /\ best.length \in MinMatch..(Len(block) - position) /\ best.number \in 0..(number - 1)
      /\ Candidate(best)
  BY <1>1 DEF Matches
<1>3. PICK e : Entered(e) /\ e.number = best.number /\ Repeats(e.position, best.length)
  BY <1>2 DEF Candidate
<1>4. items[e.number + 1] = e.position
  BY <1>3 DEF Recorded
<1>5. e.position = source
  BY <1>3, <1>4
<1>6. source \in Nat
  <2>1. e.position \in Nat
    <3>1. e.position \in 0..(position - 1)
      BY <1>3 DEF Entered, EntriesBefore
    <3> QED BY <3>1
  <2> QED BY <1>5, <2>1
<1>7. Repeats(source, best.length)
  BY <1>3, <1>5
<1> QED BY <1>2, <1>6, <1>7 DEF Repeats

\* Three parts are appended one after the other or at once.
LEMMA JoinThree ==
  ASSUME NEW s, NEW a, NEW b, NEW c, s \in Seq(Nat), a \in Seq(Nat), b \in Seq(Nat), c \in Seq(Nat)
  PROVE  Join(Join(a, b), c) \in Seq(Nat) /\ Join(Join(Join(s, a), b), c) = Join(s, Join(Join(a, b), c))
<1>1. Join(a, b) \in Seq(Nat) /\ Join(Join(a, b), c) \in Seq(Nat) /\ Join(s, a) \in Seq(Nat)
  BY JoinAssociative
<1>2. Join(Join(Join(s, a), b), c) = Join(s, Join(Join(a, b), c))
  <2>1. Join(Join(s, a), b) = Join(s, Join(a, b))
    BY JoinAssociative
  <2>2. Join(Join(s, Join(a, b)), c) = Join(s, Join(Join(a, b), c))
    BY <1>1, JoinAssociative
  <2> QED BY <2>1, <2>2
<1> QED BY <1>1, <1>2

\* The best match, what is written of its length and its distance in items.
Matched(best, count, distance) ==
  best = BestMatch /\ best # None /\ count = best.length - MinMatch + 1 /\ distance = number - best.number

\* What is written for it.
Written(count, distance) == (Flushed(Min({count, Short})) \o LongCount(count)) \o Integer(distance)

\* A reference, with the literals before it, is read back in one step.
LEMMA ReferenceExtends ==
  ASSUME EncoderSound, position < Len(block), NEW out, NEW prev, NEW items, Recorded(out, prev, items),
         NEW w, w = Append(items, position), NEW best, NEW count, NEW distance, Matched(best, count, distance)
  PROVE  /\ Spells(Written(count, distance), out, prev, items, SubSeq(block, 1, position + best.length), w)
         /\ stream \o Flushed(Min({count, Short})) \o LongCount(count) \o Integer(distance)
              = stream \o Written(count, distance)
<1> DEFINE source == items[best.number + 1]
           B == SubSeq(block, 1, position)
           length == best.length
           reference == Min({count, Short})
<1>0. best = BestMatch /\ best # None /\ count = best.length - MinMatch + 1 /\ distance = number - best.number
  BY DEF Matched
<1> USE <1>0
<1>1. /\ length \in MinMatch..(Len(block) - position) /\ best.number \in 0..(number - 1)
      /\ source \in Nat /\ source + length <= position
      /\ \A n \in 1..length : block[source + n] = block[position + n]
  BY BestFound
<1>2. /\ position \in Nat /\ number \in Nat /\ Len(block) \in Nat /\ number <= position /\ Len(block) <= BlockSize
      /\ block \in Seq(Nat) /\ items \in Seq(Nat) /\ Len(items) = number
  BY PendingPlace DEF EncoderSound, Recorded
<1> HIDE DEF source, length
<1>3. /\ length \in Nat /\ count \in Nat /\ count > 0 /\ count + MinMatch - 1 = length /\ position + length <= Len(block)
      /\ count \in 0..BlockSize
  <2>1. count = length - MinMatch + 1
    BY DEF length
  <2>2. length \in Nat /\ MinMatch \in Nat /\ MinMatch > 1 /\ BlockSize \in Nat
    BY <1>1, Sizes
  <2>3. MinMatch <= length /\ length <= Len(block) - position
    BY <1>1, <1>2, <2>2
  <2>4. position + length <= Len(block) /\ length <= BlockSize
    BY <1>2, <2>2, <2>3
  <2> QED BY <2>1, <2>2, <2>3, <2>4
<1>4. /\ distance \in 1..Len(items) /\ distance <= BlockSize /\ distance \in 0..BlockSize
      /\ Len(items) - distance + 1 = best.number + 1
  <2>1. \A n, b : n \in Nat /\ b \in 0..(n - 1) => n - b \in 1..n /\ n - (n - b) + 1 = b + 1
    OBVIOUS
  <2>2. distance \in 1..number /\ number - distance + 1 = best.number + 1
    BY <1>1, <1>2, <2>1
  <2>3. \A n, d, p, k, s \in Nat : d \in 1..n /\ n <= p /\ p <= k /\ k <= s => d <= s /\ d \in 0..s
    OBVIOUS
  <2>4. distance \in Nat /\ BlockSize \in Nat
    BY <2>2, Sizes
  <2>5. distance <= BlockSize /\ distance \in 0..BlockSize
    <3>1. position <= Len(block)
      BY <1>2, <1>3
    <3> QED BY <1>2, <2>2, <2>3, <2>4, <3>1
  <2> QED BY <1>2, <2>2, <2>5
<1>5. reference \in 0..Short /\ reference # 0
  <2>1. Short \in Nat /\ Short > 0
    BY Sizes, ShortPositive
  <2>2. reference \in Nat /\ reference <= Short /\ (reference = count \/ reference = Short)
    BY <1>3, <2>1, MinOfTwo
  <2> HIDE DEF reference
  <2> QED BY <1>3, <2>1, <2>2
<1>6. B \in Seq(Nat) /\ Len(B) = position
  <2>1. position \in 0..Len(block) /\ position \in position..Len(block)
    BY <1>2, <1>3
  <2> QED BY <1>2, <2>1, BlockParts
<1>7. LongCount(count) \in Seq(Nat) /\ Integer(distance) \in Seq(Nat)
  BY <1>3, <1>4, LongCountTyped, IntegerTyped
<1>8. Flushed(reference) \in Seq(Nat)
  <2>1. <<>> \in Seq(Nat)
    OBVIOUS
  <2> HIDE DEF reference
  <2>2. ~(Len(literal) = 0 /\ reference = 0)
    BY <1>5
  <2> QED BY <1>5, <2>1, <2>2, PendingReads
<1>9. B \o SubSeq(B, source + 1, source + length) = SubSeq(block, 1, position + length)
  <2>1. position \in 0..Len(block) /\ source \in Nat /\ length \in Nat
    BY <1>1, <1>2, <1>3
  <2>2. \A n \in 1..length : block[source + n] = block[position + n]
    BY <1>1 DEF length
  <2>3. source + length <= position /\ position + length <= Len(block) /\ block \in Seq(Nat)
    BY <1>1, <1>2, <1>3
  <2> HIDE DEF B
  <2>4. SubSeq(block, 1, position) \o SubSeq(SubSeq(block, 1, position), source + 1, source + length)
          = SubSeq(block, 1, position + length)
    BY <2>1, <2>2, <2>3, RunCopied
  <2> QED BY <2>4 DEF B
<1>10. ASSUME NEW r, NEW max, r \in Seq(Nat), max \in Nat
       PROVE  DecodeStep(Current(items, prev, out,
                                 Flushed(reference) \o (LongCount(count) \o (Integer(distance) \o r)), max))
                = Roll(Reading(r, SubSeq(block, 1, position + length), w, prev, out, max))
  <2> DEFINE q == LongCount(count) \o (Integer(distance) \o r)
             d == Reading(q, B, items, prev, out, max)
  <2>1. q \in Seq(Nat)
    <3>1. Integer(distance) \o r \in Seq(Nat)
      BY <1>7, <1>10, ConcatProperties
    <3> QED BY <1>7, <3>1, ConcatProperties
  <2>2. Reference(d, reference)
          = Reading(r, B \o SubSeq(B, source + 1, source + length), Append(items, Len(B)), prev, out, max)
    <3>1. items[Len(items) - distance + 1] = source
      BY <1>4 DEF source
    <3>2. Copyable(r, B, items, count, length, distance, source)
      <4> HIDE DEF B
      <4>1. position + length <= BlockSize
        BY <1>2, <1>3, Sizes
      <4> QED BY <1>1, <1>2, <1>3, <1>4, <1>6, <1>10, <3>1, <4>1 DEF Copyable
    <3> HIDE DEF B
    <3>3. Reference(Reading(LongCount(count) \o (Integer(distance) \o r), B, items, prev, out, max), Min({count, Short}))
            = Reading(r, B \o SubSeq(B, source + 1, source + length), Append(items, Len(B)), prev, out, max)
      BY <3>2, ReferenceReadsBack
    <3> QED BY <3>3
  <2>3. Reference(d, reference) = Reading(r, SubSeq(block, 1, position + length), w, prev, out, max)
    BY <1>6, <1>9, <2>2
  <2> HIDE DEF q, reference
  <2>4. ~(Len(literal) = 0 /\ reference = 0)
    BY <1>5
  <2>5. DecodeStep(Current(items, prev, out, Flushed(reference) \o q, max)) = Roll(Reference(d, reference))
    BY <1>5, <2>1, <2>4, PendingReads
  <2> HIDE DEF d
  <2>6. DecodeStep(Current(items, prev, out, Flushed(reference) \o q, max))
          = Roll(Reading(r, SubSeq(block, 1, position + length), w, prev, out, max))
    BY <2>3, <2>5
  <2> QED BY <2>6 DEF q, reference
<1>11. stream \o Flushed(reference) \o LongCount(count) \o Integer(distance) = stream \o Written(count, distance)
       /\ Written(count, distance) \in Seq(Nat)
       /\ \A r : r \in Seq(Nat) =>
            Written(count, distance) \o r = Flushed(reference) \o (LongCount(count) \o (Integer(distance) \o r))
  <2> DEFINE a == Flushed(reference)
             b == LongCount(count)
             c == Integer(distance)
  <2>1. a \in Seq(Nat) /\ b \in Seq(Nat) /\ c \in Seq(Nat) /\ stream \in Seq(Nat)
    BY <1>7, <1>8 DEF EncoderSound
  <2>2. Written(count, distance) = Join(Join(a, b), c)
    BY DEF Written, Join
  <2> HIDE DEF a, b, c
  <2>3. Join(Join(a, b), c) \in Seq(Nat) /\ Join(Join(Join(stream, a), b), c) = Join(stream, Join(Join(a, b), c))
    BY <2>1, JoinThree
  <2>4. ASSUME NEW r, r \in Seq(Nat)
        PROVE  Join(Join(Join(a, b), c), r) = Join(a, Join(b, Join(c, r)))
    <3>1. Join(Join(Join(a, b), c), r) = Join(a, Join(Join(b, c), r))
      BY <2>1, <2>4, JoinThree
    <3>2. Join(Join(b, c), r) = Join(b, Join(c, r))
      BY <2>1, <2>4, JoinAssociative
    <3> QED BY <3>1, <3>2
  <2>5. /\ Written(count, distance) \in Seq(Nat) /\ Join(Join(Join(stream, a), b), c) = Join(stream, Written(count, distance))
        /\ \A r : r \in Seq(Nat) => Join(Written(count, distance), r) = Join(a, Join(b, Join(c, r)))
    BY <2>2, <2>3, <2>4
  <2> QED BY <2>5 DEF Join, a, b, c
<1>12. Spells(Written(count, distance), out, prev, items, SubSeq(block, 1, position + length), w)
  BY <1>10, <1>11 DEF Spells
<1> QED BY <1>11, <1>12 DEF length

\* A reference is followed by a state in which nothing is pending.
LEMMA ReferenceFollows ==
  ASSUME EncoderSound, EncodeReference, NEW out, NEW prev, NEW items, Recorded(out, prev, items),
         Follows(out, prev, items), NEW w, w = Append(items, position),
         NEW best, NEW count, NEW distance, Matched(best, count, distance)
  PROVE  Recorded(out, prev, w)' /\ Follows(out, prev, w)'
<1> DEFINE F == Written(count, distance)
           B == SubSeq(block, 1, position + best.length)
<1>5. /\ Spells(Written(count, distance), out, prev, items, SubSeq(block, 1, position + best.length), w)
      /\ stream \o Flushed(Min({count, Short})) \o LongCount(count) \o Integer(distance)
           = stream \o Written(count, distance)
  <2>1. position < Len(block)
    BY DEF EncodeReference
  <2> QED BY <2>1, ReferenceExtends
<1>0. best = BestMatch /\ best # None /\ count = best.length - MinMatch + 1 /\ distance = number - best.number
  BY DEF Matched
<1> USE <1>0
<1>1. /\ position < Len(block) /\ best # None /\ phase' = "encode" /\ position' = position + best.length /\ Insert
      /\ input' = input /\ rest' = rest /\ block' = block /\ checksum' = checksum /\ literal' = <<>>
      /\ stream' = stream \o Flushed(Min({count, Short})) \o LongCount(count) \o Integer(distance)
  BY DEF EncodeReference, LongCount
<1>2. number' = number + 1
  BY <1>1 DEF Insert
<1>3. /\ position \in Nat /\ number \in Nat /\ Len(block) \in Nat /\ Len(block) <= BlockSize
      /\ block \in Seq(Nat) /\ stream \in Seq(Nat) /\ Len(literal) \in Nat
  BY PendingPlace DEF EncoderSound
<1>4. /\ w \in Seq(Nat) /\ Len(w) = number + 1 /\ \A e : Entered(e)' => w[e.number + 1] = e.position
  <2>1. w \in Seq(Nat) /\ Len(w) = number + 1 /\ w[number + 1] = position
    BY ItemAdded
  <2>2. Placed(w)
    BY ItemAdded
  <2>3. ASSUME NEW e, Entered(e)'
        PROVE  w[e.number + 1] = e.position
    <3>1. Entered(e) \/ e = [position |-> position, number |-> number]
      BY <1>1, <2>3, InsertEntered
    <3>2. CASE Entered(e)
      BY <2>2, <3>2 DEF Placed
    <3>3. CASE e = [position |-> position, number |-> number]
      BY <2>1, <3>3
    <3> QED BY <3>1, <3>2, <3>3
  <2> QED BY <2>1, <2>3
<1>6. stream' = stream \o F
  BY <1>1, <1>5
<1>7. best.length \in Nat /\ position + best.length \in 0..Len(block)
  <2>1. best.length \in MinMatch..(Len(block) - position)
    <3>1. best \in Matches
      BY BestMatchTyped
    <3> QED BY <1>1, <3>1 DEF Matches
  <2>2. best.length \in Nat /\ best.length <= Len(block) - position
    BY <1>3, <2>1, Sizes
  <2> QED BY <1>3, <2>2
<1>8. Spells(F, out, prev, items, B, w)
  BY <1>5
<1>9. position - Len(literal) # BlockSize
  BY <1>1, <1>3, Sizes
<1> HIDE DEF F, B
<1>10. \A r, max : r \in Seq(Nat) /\ max \in Nat =>
         Leads((stream \o F) \o r, out, max, Roll(Reading(r, B, w, prev, out, max)))
  BY <1>8, <1>9, Extends
<1>11. Len(literal') = 0 /\ position' - Len(literal') = position' /\ number' - Len(literal') = number'
  <2>1. Len(literal') = 0
    BY <1>1
  <2> QED BY <1>1, <1>2, <1>3, <1>7, <2>1
<1>12. SubSeq(w, 1, number') = w
  BY <1>2, <1>4, SubSeqFull
<1>13. \A r, max : Current(w, prev, out, r, max)' = Reading(r, B, w, prev, out, max)
  BY <1>1, <1>11, <1>12 DEF Current, B
<1>14. Follows(out, prev, w)'
  BY <1>6, <1>10, <1>13 DEF Follows
<1>15. Recorded(out, prev, w)'
  <2>1. /\ out \in Seq(Nat) /\ prev \in Nat
        /\ input = (out \o block) \o rest
        /\ checksum = IF block = <<>> THEN prev ELSE Hash(block, prev)
        /\ Len(block) = BlockSize \/ rest = <<>> \/ block = <<>>
    BY DEF Recorded
  <2>2. phase' # "blocks"
    BY <1>1
  <2>3. literal' = SubSeq(block', position' - Len(literal') + 1, position')
    <3>1. position' \in Int /\ position' + 1 \in Int /\ position' < position' + 1
      BY <1>1, <1>3, <1>7
    <3>2. SubSeq(block', position' + 1, position') = <<>>
      BY <3>1, SubSeqEmpty
    <3> QED BY <1>1, <1>11, <3>2
  <2>4. Len(literal') <= number' /\ Len(literal') <= MaxLiterals
    BY <1>2, <1>3, <1>11, Sizes
  <2>5. \A n \in 1..Len(literal') : w[number' - Len(literal') + n] = position' - Len(literal') + n - 1
    BY <1>11
  <2> QED BY <1>1, <1>2, <1>4, <2>1, <2>2, <2>3, <2>4, <2>5 DEF Recorded
<1> QED BY <1>14, <1>15

\* Nothing is pending between blocks.
LEMMA BetweenBlocks ==
  ASSUME EncoderSound, phase = "blocks", NEW out, NEW prev, NEW items, Recorded(out, prev, items)
  PROVE  /\ literal = <<>> /\ Len(literal) = 0 /\ position = Len(block)
         /\ \A r, max : Current(items, prev, out, r, max) = Reading(r, block, items, prev, out, max)
<1>1. literal = <<>> /\ position = Len(block) /\ block \in Seq(Nat) /\ items \in Seq(Nat) /\ Len(items) = number
  BY DEF EncoderSound, Recorded
<1>2. Len(literal) = 0 /\ position \in Nat /\ number \in Nat
  <2>1. position \in Nat /\ number \in Nat
    BY PendingPlace
  <2> QED BY <1>1, <2>1
<1>3. position - Len(literal) = Len(block) /\ number - Len(literal) = Len(items)
  BY <1>1, <1>2
<1>4. SubSeq(block, 1, Len(block)) = block /\ SubSeq(items, 1, Len(items)) = items
  BY <1>1, SubSeqFull
<1> QED BY <1>1, <1>2, <1>3, <1>4 DEF Current

\* At the end of a block what is pending is flushed.
LEMMA EndBlockFollows ==
  ASSUME EncoderSound, EndBlock, NEW out, NEW prev, NEW items, Recorded(out, prev, items),
         Follows(out, prev, items)
  PROVE  Recorded(out, prev, items)' /\ Follows(out, prev, items)'
<1>1. /\ position = Len(block) /\ phase' = "blocks" /\ stream' = stream \o Flushed(0) /\ literal' = <<>>
      /\ input' = input /\ rest' = rest /\ block' = block /\ position' = position /\ number' = number
      /\ chains' = chains /\ checksum' = checksum
  BY DEF EndBlock
<1>2. /\ position \in Nat /\ number \in Nat /\ literal \in Seq(Nat) /\ stream \in Seq(Nat)
      /\ items \in Seq(Nat) /\ Len(items) = number /\ Len(literal') = 0
      /\ position' - Len(literal') = position /\ number' - Len(literal') = number
  <2>1. position \in Nat /\ number \in Nat
    BY PendingPlace
  <2>2. literal \in Seq(Nat) /\ stream \in Seq(Nat) /\ items \in Seq(Nat) /\ Len(items) = number
    BY DEF EncoderSound, Recorded
  <2>3. Len(literal') = 0
    BY <1>1
  <2> QED BY <1>1, <2>1, <2>2, <2>3
<1>3. Recorded(out, prev, items)'
  <2>1. /\ out \in Seq(Nat) /\ prev \in Nat /\ items \in Seq(Nat)
        /\ input = (out \o block) \o rest
        /\ checksum = IF block = <<>> THEN prev ELSE Hash(block, prev)
        /\ Len(block) = BlockSize \/ rest = <<>> \/ block = <<>>
    BY DEF Recorded
  <2>2. literal' = SubSeq(block', position' - Len(literal') + 1, position')
    <3>1. position \in Int /\ position + 1 \in Int /\ position < position + 1
      BY <1>2
    <3>2. SubSeq(block, position + 1, position) = <<>>
      BY <3>1, SubSeqEmpty
    <3> QED BY <1>1, <1>2, <3>2
  <2>3. Len(literal') <= number' /\ Len(literal') <= MaxLiterals
    BY <1>1, <1>2, Sizes
  <2>4. \A n \in 1..Len(literal') : items[number' - Len(literal') + n] = position' - Len(literal') + n - 1
    BY <1>2
  <2>5. ASSUME NEW e, Entered(e)'
        PROVE  items[e.number + 1] = e.position
    <3>1. Entered(e)
      BY <1>1, <2>5 DEF Entered
    <3> QED BY <3>1 DEF Recorded
  <2> QED BY <1>1, <1>2, <2>1, <2>2, <2>3, <2>4, <2>5 DEF Recorded
<1>4. CASE Len(literal) = 0
  <2>1. literal = <<>>
    BY <1>2, <1>4, EmptySeq
  <2>2. Flushed(0) = <<>>
    BY <1>4 DEF Flushed
  <2>3. stream' = stream
    BY <1>1, <1>2, <2>2, ConcatEmptySeq
  <2>4. \A r, max : Current(items, prev, out, r, max)' = Current(items, prev, out, r, max)
    BY <1>1, <2>1 DEF Current
  <2> QED BY <1>3, <2>3, <2>4 DEF Follows
<1>5. CASE Len(literal) # 0
  <2>1. SubSeq(items, 1, number) = items
    BY <1>2, SubSeqFull
  <2>2. \A r, max : Current(items, prev, out, r, max)' = Reading(r, SubSeq(block, 1, position), items, prev, out, max)
    BY <1>1, <1>2, <2>1 DEF Current
  <2>3. \A r, max : r \in Seq(Nat) /\ max \in Nat =>
          Leads((stream \o Flushed(0)) \o r, out, max,
                Roll(Reading(r, SubSeq(block, 1, position), items, prev, out, max)))
    BY <1>5, FlushExtends
  <2> QED BY <1>1, <1>3, <2>2, <2>3 DEF Follows
<1> QED BY <1>4, <1>5

\* A full block is closed when the next one begins.
LEMMA BlockClosed ==
  ASSUME EncoderSound, phase = "blocks", rest # <<>>, NEW out, NEW prev, NEW items, Recorded(out, prev, items),
         Follows(out, prev, items), NEW more, more = out \o block, NEW r, NEW max, r \in Seq(Nat), max \in Nat
  PROVE  Leads(stream \o r, more, max, Reading(r, <<>>, <<>>, checksum, more, max))
<1> DEFINE d == Reading(r, block, items, prev, out, max)
<1>1. Leads(stream \o r, out, max, Roll(d))
  BY BetweenBlocks DEF Follows
<1>2. /\ out \in Seq(Nat) /\ block \in Seq(Nat) /\ items \in Seq(Nat)
      /\ Len(block) = BlockSize \/ block = <<>>
      /\ checksum = IF block = <<>> THEN prev ELSE Hash(block, prev)
  BY DEF Recorded, EncoderSound
<1>3. Len(out) \in Nat /\ Len(block) \in Nat /\ Len(more) = Len(out) + Len(block)
  BY <1>2, LenProperties, ConcatProperties
<1>4. /\ Len(block) # BlockSize => Roll(d) = d
      /\ Len(block) = BlockSize /\ Len(out) + Len(block) <= max =>
           Roll(d) = Reading(r, <<>>, <<>>, Hash(block, prev), out \o block, max)
      /\ Len(block) = BlockSize /\ ~(Len(out) + Len(block) <= max) => Roll(d).status = "refused" /\ Roll(d).maximum = max
  <2>1. block \in Seq(Nat) /\ out \in Seq(Nat) /\ max \in Nat
    BY <1>2
  <2> QED BY ONLY <2>1, RollReads
<1>5. CASE block = <<>>
  <2>1. more = out /\ checksum = prev /\ Len(block) = 0 /\ Len(block) # BlockSize
    BY <1>2, <1>5, ConcatEmptySeq, Sizes
  <2>2. items = <<>>
    <3>1. number \in Nat /\ number <= position /\ position <= Len(block) /\ Len(items) = number
      BY PendingPlace DEF Recorded
    <3>2. Len(items) = 0
      BY <2>1, <3>1, PendingPlace
    <3> QED BY <1>2, <3>2, EmptySeq
  <2>3. Roll(d) = d
    BY <1>4, <2>1
  <2>4. d = Reading(r, <<>>, <<>>, checksum, more, max)
    BY <1>5, <2>1, <2>2
  <2> HIDE DEF d
  <2> QED BY <1>1, <2>1, <2>3, <2>4
<1>6. CASE block # <<>>
  <2>1. Len(block) = BlockSize /\ checksum = Hash(block, prev)
    BY <1>2, <1>6
  <2>2. ASSUME Len(more) <= max
        PROVE  Reaches(Fresh(stream \o r, max), Reading(r, <<>>, <<>>, checksum, more, max))
    <3>1. Len(out) + Len(block) <= max /\ Len(out) <= max
      BY <1>3, <2>2
    <3>2. Roll(d) = Reading(r, <<>>, <<>>, Hash(block, prev), out \o block, max)
      BY <1>4, <2>1, <3>1
    <3> HIDE DEF d
    <3> QED BY <1>1, <2>1, <3>1, <3>2 DEF Leads
  <2>3. ASSUME Len(more) > max
        PROVE  Overrun(stream \o r, max)
    <3>1. ~(Len(out) + Len(block) <= max)
      BY <1>3, <2>3
    <3>2. Roll(d).status = "refused" /\ Roll(d).maximum = max
      BY <1>4, <2>1, <3>1
    <3> HIDE DEF d
    <3>3. CASE Len(out) <= max
      BY <1>1, <3>2, <3>3 DEF Leads, Overrun
    <3>4. CASE Len(out) > max
      BY <1>1, <3>4 DEF Leads
    <3> QED BY <1>3, <3>3, <3>4
  <2> QED BY <2>2, <2>3 DEF Leads
<1> QED BY <1>5, <1>6

\* The next block starts with nothing entered.
LEMMA NextBlockFollows ==
  ASSUME EncoderSound, NextBlock, NEW out, NEW prev, NEW items, Recorded(out, prev, items),
         Follows(out, prev, items), NEW more, more = out \o block, NEW sum, sum = checksum
  PROVE  Recorded(more, sum, <<>>)' /\ Follows(more, sum, <<>>)'
<1> DEFINE size == Min({BlockSize, Len(rest)})
<1>1. /\ phase = "blocks" /\ rest # <<>> /\ phase' = "encode" /\ position' = 0 /\ number' = 0
      /\ block' = SubSeq(rest, 1, size) /\ rest' = SubSeq(rest, size + 1, Len(rest))
      /\ checksum' = Hash(SubSeq(rest, 1, size), checksum)
      /\ chains' = [k \in 0..(TableSize - 1) |-> <<>>]
      /\ input' = input /\ stream' = stream /\ literal' = literal
  BY DEF NextBlock
<1>2. /\ rest \in Seq(Nat) /\ block \in Seq(Nat) /\ out \in Seq(Nat) /\ input = (out \o block) \o rest
      /\ checksum \in Nat /\ literal = <<>> /\ stream \in Seq(Nat)
  BY <1>1 DEF EncoderSound, Recorded
<1>3. more \in Seq(Nat)
  BY <1>2, ConcatProperties
<1>4. size \in 1..Len(rest) /\ (size = BlockSize \/ size = Len(rest)) /\ Len(rest) \in Nat
  <2>1. Len(rest) \in Nat /\ Len(rest) > 0
    BY <1>1, <1>2, LenProperties, EmptySeq
  <2>2. size \in Nat /\ size <= Len(rest) /\ (size = BlockSize \/ size = Len(rest))
    BY <2>1, Sizes, MinOfTwo
  <2> HIDE DEF size
  <2> QED BY <2>1, <2>2, Sizes
<1> HIDE DEF size
<1>5. /\ block' \in Seq(Nat) /\ Len(block') = size /\ rest' \in Seq(Nat) /\ Len(rest') = Len(rest) - size
      /\ block' \o rest' = rest
  <2>1. size \in 0..Len(rest) /\ Len(rest) \in size..Len(rest)
    BY <1>4
  <2>2. SubSeq(rest, 1, Len(rest)) = rest
    BY <1>2, SubSeqFull
  <2>3. /\ SubSeq(rest, 1, size) \in Seq(Nat) /\ Len(SubSeq(rest, 1, size)) = size
        /\ SubSeq(rest, size + 1, Len(rest)) \in Seq(Nat) /\ Len(SubSeq(rest, size + 1, Len(rest))) = Len(rest) - size
        /\ SubSeq(rest, 1, size) \o SubSeq(rest, size + 1, Len(rest)) = SubSeq(rest, 1, Len(rest))
    BY <1>2, <2>1, BlockParts
  <2> QED BY <1>1, <2>2, <2>3
<1>6. block' # <<>> /\ (Len(block') = BlockSize \/ rest' = <<>>)
  <2>1. block' # <<>>
    <3>1. Len(<<>>) = 0
      OBVIOUS
    <3> QED BY <1>4, <1>5, <3>1
  <2>2. CASE size = Len(rest)
    <3>1. Len(rest') = 0
      BY <1>4, <1>5, <2>2
    <3> QED BY <1>5, <2>1, <3>1, EmptySeq
  <2> QED BY <1>4, <1>5, <2>1, <2>2
<1>7. input' = (more \o block') \o rest'
  <2>1. Join(Join(more, block'), rest') = Join(more, Join(block', rest'))
    BY <1>3, <1>5, JoinAssociative
  <2> QED BY <1>1, <1>2, <1>5, <2>1 DEF Join
<1>8. Len(literal') = 0 /\ position' - Len(literal') = 0 /\ number' - Len(literal') = 0
  <2>1. literal' = <<>>
    BY <1>1, <1>2
  <2>2. Len(literal') = 0
    BY <2>1
  <2> QED BY <1>1, <2>2
<1>9. Recorded(more, sum, <<>>)'
  <2>1. <<>> \in Seq(Nat) /\ Len(<<>>) = 0
    OBVIOUS
  <2>2. checksum' = IF block' = <<>> THEN sum ELSE Hash(block', sum)
    BY <1>1, <1>6
  <2>3. literal' = SubSeq(block', position' - Len(literal') + 1, position')
    <3>1. SubSeq(block', 1, 0) = <<>>
      BY SubSeqEmpty
    <3>2. position' - Len(literal') + 1 = 1
      BY <1>8
    <3> QED BY <1>1, <1>2, <3>1, <3>2
  <2>4. \A e : ~Entered(e)'
    <3> SUFFICES ASSUME NEW e, Entered(e)'
                 PROVE  FALSE
      OBVIOUS
    <3>1. PICK key \in 0..(TableSize - 1) : \E i \in 1..Len(chains'[key]) : e = chains'[key][i]
      BY DEF Entered
    <3>2. Len(chains'[key]) = 0
      BY <1>1, <2>1
    <3> QED BY <3>1, <3>2
  <2>5. Len(literal') <= number' /\ Len(literal') <= MaxLiterals
    BY <1>1, <1>8, Sizes
  <2>6. \A n \in 1..Len(literal') : <<>>[number' - Len(literal') + n] = position' - Len(literal') + n - 1
    BY <1>8
  <2>7. phase' # "blocks"
    BY <1>1
  <2> QED BY <1>1, <1>2, <1>3, <1>6, <1>7, <2>1, <2>2, <2>3, <2>4, <2>5, <2>6, <2>7 DEF Recorded
<1>10. \A r, max : Current(<<>>, sum, more, r, max)' = Reading(r, <<>>, <<>>, sum, more, max)
  <2>1. SubSeq(block', 1, 0) = <<>> /\ SubSeq(<<>>, 1, 0) = <<>>
    BY SubSeqEmpty
  <2> QED BY <1>8, <2>1 DEF Current
<1>11. ASSUME NEW r, NEW max, r \in Seq(Nat), max \in Nat
       PROVE  Leads(stream \o r, more, max, Roll(Reading(r, <<>>, <<>>, sum, more, max)))
  <2>1. Leads(stream \o r, more, max, Reading(r, <<>>, <<>>, checksum, more, max))
    BY <1>1, <1>11, BlockClosed
  <2>2. Roll(Reading(r, <<>>, <<>>, sum, more, max)) = Reading(r, <<>>, <<>>, sum, more, max)
    <3>1. Len(<<>>) = 0
      OBVIOUS
    <3>2. <<>> \in Seq(Nat) /\ Len(<<>>) # BlockSize /\ more \in Seq(Nat) /\ max \in Nat
      BY <1>3, <1>11, <3>1, Sizes
    <3> DEFINE none == <<>>
    <3>3. none \in Seq(Nat) /\ Len(none) # BlockSize /\ more \in Seq(Nat) /\ max \in Nat
      BY <3>2
    <3> HIDE DEF none
    <3>4. Roll(Reading(r, none, none, sum, more, max)) = Reading(r, none, none, sum, more, max)
      BY ONLY <3>3, RollReads
    <3> QED BY <3>4 DEF none
  <2> QED BY <2>1, <2>2
<1>12. Follows(more, sum, <<>>)'
  BY <1>1, <1>10, <1>11 DEF Follows
<1> QED BY <1>9, <1>12

-----------------------------------------------------------------------------

\* What a decompressor says of these bytes in the end.
Answer(e, bytes) ==
  IF e.maximum >= Len(bytes) THEN e.status = "done" /\ e.output = bytes ELSE e.status = "refused"

\* A decompressor comes to the right answer.
Answers(d, bytes) == \E e : Reaches(d, e) /\ Answer(e, bytes)

\* A closed stream is answered.
LEMMA CloseAnswers ==
  ASSUME NEW s, NEW B, NEW I, NEW sum, NEW out, NEW max, NEW sent,
         B \in Seq(Nat), out \in Seq(Nat), max \in Nat, sent \in Nat,
         Sealed(sent, B, sum),
         Reaches(Fresh(s, max), Reading(<<0, sent>>, B, I, sum, out, max))
  PROVE  Answers(Fresh(s, max), out \o B)
<1> DEFINE c == Reading(<<0, sent>>, B, I, sum, out, max)
           e == DecodeStep(c)
<1>1. c.status = "reading"
  BY DEF Reading
<1>2. Closed(e, B, out, max)
  BY CloseReads
<1> HIDE DEF c
<1>3. Reaches(Fresh(s, max), e)
  BY <1>1, ReachesNext DEF c
<1>4. Len(out \o B) = Len(out) + Len(B) /\ Len(out) \in Nat /\ Len(B) \in Nat
  BY ConcatProperties, LenProperties
<1> HIDE DEF e
<1>5. Answer(e, out \o B)
  BY <1>2, <1>4 DEF Answer, Closed
<1> QED BY <1>3, <1>5 DEF Answers

\* The finished stream is answered by every decompressor.
LEMMA FinishAnswers ==
  ASSUME EncoderSound, Finish, NEW out, NEW prev, NEW items, Recorded(out, prev, items),
         Follows(out, prev, items), NEW max, max \in Nat
  PROVE  Answers(Fresh(stream', max), input')
<1> DEFINE r == <<0, checksum>>
           d == Reading(r, block, items, prev, out, max)
           s == stream \o r
<1>1. phase = "blocks" /\ rest = <<>> /\ stream' = s /\ input' = input
  BY DEF Finish
<1>2. /\ out \in Seq(Nat) /\ block \in Seq(Nat) /\ input = (out \o block) \o rest
      /\ checksum = IF block = <<>> THEN prev ELSE Hash(block, prev)
      /\ checksum \in Nat /\ prev \in Nat
  BY DEF Recorded, EncoderSound
<1>3. input' = out \o block /\ out \o block \in Seq(Nat)
  <2>1. out \o block \in Seq(Nat)
    BY <1>2, ConcatProperties
  <2> QED BY <1>1, <1>2, <2>1, ConcatEmptySeq
<1>4. Leads(s, out, max, Roll(d))
  <2>1. r \in Seq(Nat)
    BY <1>2
  <2> HIDE DEF r
  <2> QED BY <1>1, <2>1, BetweenBlocks DEF Follows
<1>5. Len(out) \in Nat /\ Len(block) \in Nat /\ Len(out \o block) = Len(out) + Len(block)
  BY <1>2, LenProperties, ConcatProperties
<1>6. /\ Len(block) # BlockSize => Roll(d) = d
      /\ Len(block) = BlockSize /\ Len(out) + Len(block) <= max =>
           Roll(d) = Reading(r, <<>>, <<>>, Hash(block, prev), out \o block, max)
      /\ Len(block) = BlockSize /\ ~(Len(out) + Len(block) <= max) => Roll(d).status = "refused" /\ Roll(d).maximum = max
  <2>1. block \in Seq(Nat) /\ out \in Seq(Nat) /\ max \in Nat
    BY <1>2
  <2> HIDE DEF r
  <2> QED BY ONLY <2>1, RollReads
<1>7. ASSUME NEW e, Reaches(Fresh(s, max), e), e.status = "refused", e.maximum = max, ~(Len(out) + Len(block) <= max)
      PROVE  Answers(Fresh(s, max), out \o block)
  <2>1. Answer(e, out \o block)
    BY <1>5, <1>7 DEF Answer
  <2> QED BY <1>7, <2>1 DEF Answers
<1>8. Answers(Fresh(s, max), out \o block)
  <2>1. CASE Len(out) > max
    <3> HIDE DEF s, d
    <3>1. PICK e : Reaches(Fresh(s, max), e) /\ e.status = "refused" /\ e.maximum = max
      BY <1>4, <2>1 DEF Leads, Overrun
    <3>2. ~(Len(out) + Len(block) <= max)
      BY <1>5, <2>1
    <3> QED BY <1>7, <3>1, <3>2
  <2>2. CASE Len(out) <= max /\ Len(block) # BlockSize
    <3>1. Reaches(Fresh(s, max), d)
      <4> HIDE DEF s, d
      <4> QED BY <1>4, <1>6, <2>2 DEF Leads
    <3>2. block \in Seq(Nat) /\ out \in Seq(Nat) /\ max \in Nat /\ checksum \in Nat /\ Sealed(checksum, block, prev)
      BY <1>2 DEF Sealed
    <3> HIDE DEF s
    <3> QED BY <3>1, <3>2, CloseAnswers
  <2>3. CASE Len(out) <= max /\ Len(block) = BlockSize /\ Len(out) + Len(block) <= max
    <3> DEFINE sum == Hash(block, prev)
               more == out \o block
    <3>1. checksum = sum
      <4>1. block # <<>>
        <5>1. Len(<<>>) = 0
          OBVIOUS
        <5> QED BY <2>3, <5>1, Sizes
      <4> QED BY <1>2, <4>1
    <3>2. Reaches(Fresh(s, max), Reading(<<0, checksum>>, <<>>, <<>>, sum, more, max))
      <4> HIDE DEF s, d
      <4> QED BY <1>4, <1>6, <2>3 DEF Leads
    <3>3. <<>> \in Seq(Nat) /\ more \in Seq(Nat) /\ checksum \in Nat
          /\ Sealed(checksum, <<>>, sum)
      BY <1>2, <1>3, <3>1 DEF Sealed
    <3> HIDE DEF s, sum, more
    <3>4. Answers(Fresh(s, max), more \o <<>>)
      BY <3>2, <3>3, CloseAnswers
    <3>5. more \o <<>> = more
      BY <3>3, ConcatEmptySeq
    <3> QED BY <3>4, <3>5 DEF more
  <2>4. CASE Len(out) <= max /\ Len(block) = BlockSize /\ ~(Len(out) + Len(block) <= max)
    <3> HIDE DEF s, d
    <3>1. Reaches(Fresh(s, max), Roll(d)) /\ Roll(d).status = "refused" /\ Roll(d).maximum = max
      BY <1>4, <1>6, <2>4 DEF Leads
    <3> QED BY <1>7, <2>4, <3>1
  <2> QED BY <1>5, <2>1, <2>2, <2>3, <2>4
<1> QED BY <1>1, <1>3, <1>8
-----------------------------------------------------------------------------

\* What has been written can be followed; what is finished is answered.
RoundInv ==
  /\ phase \in {"blocks", "encode", "written", "decode", "damaged"}
  /\ phase \in {"blocks", "encode"} => \E out, prev, items : Recorded(out, prev, items) /\ Follows(out, prev, items)
  /\ phase = "written" => \A max \in Nat : Answers(Fresh(stream, max), input)
  /\ phase = "decode" => Answers(decoder, input)

\* At the start nothing is written and the decompressor is fresh.
LEMMA InitFollows ==
  ASSUME Init, EncoderSound
  PROVE  RoundInv
<1>1. /\ rest = input /\ phase = "blocks" /\ stream = <<>> /\ block = <<>> /\ position = 0 /\ number = 0
      /\ literal = <<>> /\ chains = [k \in 0..(TableSize - 1) |-> <<>>] /\ checksum = Seed /\ input \in Seq(Nat)
  BY InputAssumption DEF Init
<1>2. <<>> \in Seq(Nat) /\ Len(<<>>) = 0
  OBVIOUS
<1>3. Recorded(<<>>, Seed, <<>>)
  <2>1. Seed \in Nat
    BY <1>1 DEF EncoderSound
  <2>2. input = (<<>> \o <<>>) \o input
    BY <1>1, <1>2, ConcatEmptySeq
  <2>3. \A e : ~Entered(e)
    <3> SUFFICES ASSUME NEW e, Entered(e)
                 PROVE  FALSE
      OBVIOUS
    <3>1. PICK key \in 0..(TableSize - 1) : \E i \in 1..Len(chains[key]) : e = chains[key][i]
      BY DEF Entered
    <3>2. Len(chains[key]) = 0
      BY <1>1, <1>2
    <3> QED BY <3>1, <3>2
  <2>4. SubSeq(<<>>, 1, 0) = <<>>
    BY SubSeqEmpty
  <2> QED BY <1>1, <1>2, <2>1, <2>2, <2>3, <2>4, Sizes DEF Recorded
<1>4. Follows(<<>>, Seed, <<>>)
  <2> SUFFICES ASSUME NEW r, NEW max, r \in Seq(Nat), max \in Nat
               PROVE  Leads(stream \o r, <<>>, max, Roll(Current(<<>>, Seed, <<>>, r, max)))
    BY DEF Follows
  <2> DEFINE none == <<>>
             c == Reading(r, none, none, Seed, none, max)
  <2>1. stream \o r = r
    BY <1>1, ConcatEmptySeq
  <2>2. Current(<<>>, Seed, <<>>, r, max) = c
    <3>1. SubSeq(<<>>, 1, 0) = <<>>
      BY SubSeqEmpty
    <3>2. Len(literal) = 0 /\ position - Len(literal) = 0 /\ number - Len(literal) = 0
      <4>1. Len(literal) = 0
        BY <1>1, <1>2
      <4>2. position = 0 /\ number = 0
        BY <1>1
      <4> QED BY <4>1, <4>2
    <3> QED BY <1>1, <3>1, <3>2 DEF Current
  <2>3. c = Fresh(r, max)
    BY DEF Reading, Fresh
  <2>4. Roll(c) = c
    <3>1. none \in Seq(Nat) /\ Len(none) # BlockSize /\ max \in Nat
      BY <1>2, Sizes
    <3> HIDE DEF none
    <3> QED BY ONLY <3>1, RollReads
  <2>5. Reaches(Fresh(r, max), c)
    BY <2>3, ReachesSelf
  <2>6. Len(none) <= max /\ ~(Len(none) > max)
    BY <1>2
  <2> HIDE DEF c
  <2> QED BY <2>1, <2>2, <2>4, <2>5, <2>6 DEF Leads
<1> QED BY <1>1, <1>3, <1>4 DEF RoundInv

\* Every step of the compressor is followed.
LEMMA EncodingFollows ==
  ASSUME EncoderSound, RoundInv, NextBlock \/ EncodeLiteral \/ EncodeReference \/ EndBlock
  PROVE  RoundInv'
<1>1. phase \in {"blocks", "encode"} /\ phase' \in {"blocks", "encode"}
  BY DEF NextBlock, EncodeLiteral, EncodeReference, EndBlock
<1>2. PICK out, prev, items : Recorded(out, prev, items) /\ Follows(out, prev, items)
  BY <1>1 DEF RoundInv
<1>3. \E more, sum, w : Recorded(more, sum, w)' /\ Follows(more, sum, w)'
  <2>1. CASE NextBlock
    <3>1. PICK more : more = out \o block
      OBVIOUS
    <3>2. PICK sum : sum = checksum
      OBVIOUS
    <3>3. Recorded(more, sum, <<>>)' /\ Follows(more, sum, <<>>)'
      BY <1>2, <2>1, <3>1, <3>2, NextBlockFollows
    <3> QED BY <3>3
  <2>2. CASE EncodeLiteral
    <3>1. PICK w : w = Append(items, position)
      OBVIOUS
    <3>2. Recorded(out, prev, w)' /\ Follows(out, prev, w)'
      BY <1>2, <2>2, <3>1, LiteralFollows
    <3> QED BY <3>2
  <2>3. CASE EncodeReference
    <3>1. PICK w : w = Append(items, position)
      OBVIOUS
    <3>2. PICK best : best = BestMatch
      OBVIOUS
    <3>3. PICK count : count = best.length - MinMatch + 1
      OBVIOUS
    <3>4. PICK distance : distance = number - best.number
      OBVIOUS
    <3>5. Matched(best, count, distance)
      BY <2>3, <3>2, <3>3, <3>4 DEF Matched, EncodeReference
    <3>6. Recorded(out, prev, w)' /\ Follows(out, prev, w)'
      BY <1>2, <2>3, <3>1, <3>5, ReferenceFollows
    <3> QED BY <3>6
  <2>4. CASE EndBlock
    BY <1>2, <2>4, EndBlockFollows
  <2> QED BY <2>1, <2>2, <2>3, <2>4
<1> QED BY <1>1, <1>3 DEF RoundInv

\* Every step of the decompressor keeps its answer.
LEMMA DecodingAnswers ==
  ASSUME RoundInv, Decode
  PROVE  RoundInv'
<1>1. /\ phase \in {"decode", "damaged"} /\ phase' = phase /\ input' = input /\ decoder.status = "reading"
      /\ decoder' = DecodeStep(decoder)
  BY DEF Decode, DecodeStep
<1>2. CASE phase = "decode"
  <2>1. PICK e : Reaches(decoder, e) /\ Answer(e, input)
    BY <1>2 DEF RoundInv, Answers
  <2>2. e.status # "reading"
    BY <2>1 DEF Answer
  <2>3. Reaches(DecodeStep(decoder), e)
    BY <1>1, <2>1, <2>2, ReachesFirst
  <2>4. Answers(decoder', input')
    BY <1>1, <2>1, <2>3 DEF Answers
  <2> QED BY <1>1, <1>2, <2>4 DEF RoundInv
<1>3. CASE phase = "damaged"
  BY <1>1, <1>3 DEF RoundInv
<1> QED BY <1>1, <1>2, <1>3

\* Every step keeps the invariant.
LEMMA RoundStep == EncoderSound /\ RoundInv /\ [Next]_vars => RoundInv'
<1> SUFFICES ASSUME EncoderSound, RoundInv, [Next]_vars
             PROVE  RoundInv'
  OBVIOUS
<1>1. CASE NextBlock \/ EncodeLiteral \/ EncodeReference \/ EndBlock
  BY <1>1, EncodingFollows
<1>2. CASE Finish
  <2>1. PICK out, prev, items : Recorded(out, prev, items) /\ Follows(out, prev, items)
    BY <1>2 DEF RoundInv, Finish
  <2>2. \A max \in Nat : Answers(Fresh(stream', max), input')
    BY <1>2, <2>1, FinishAnswers
  <2>3. phase' = "written"
    BY <1>2 DEF Finish
  <2> QED BY <2>2, <2>3 DEF RoundInv
<1>3. CASE Decompress
  <2>1. phase = "written" /\ phase' = "decode" /\ input' = input
    BY <1>3 DEF Decompress
  <2>2. PICK cut \in Limits : cut <= Len(input) /\ decoder' = Fresh(stream, Len(input) - cut)
    BY <1>3 DEF Decompress
  <2>3. Len(input) - cut \in Nat
    <3>1. Len(input) \in Nat /\ cut \in Nat
      BY InputAssumption, LenProperties DEF EncoderSound
    <3> QED BY <2>2, <3>1
  <2>4. Answers(decoder', input')
    BY <2>1, <2>2, <2>3 DEF RoundInv
  <2> QED BY <2>1, <2>4 DEF RoundInv
<1>4. CASE Damage
  <2>1. phase' = "damaged"
    BY <1>4 DEF Damage
  <2> QED BY <2>1 DEF RoundInv
<1>5. CASE Decode
  BY <1>5, DecodingAnswers
<1>6. CASE UNCHANGED vars
  <2>1. input' = input /\ rest' = rest /\ phase' = phase /\ stream' = stream /\ block' = block /\ position' = position
        /\ number' = number /\ literal' = literal /\ chains' = chains /\ checksum' = checksum /\ decoder' = decoder
    BY <1>6 DEF vars
  <2>2. ASSUME NEW out, NEW prev, NEW items, Recorded(out, prev, items), Follows(out, prev, items)
        PROVE  Recorded(out, prev, items)' /\ Follows(out, prev, items)'
    <3>1. \A e : Entered(e)' <=> Entered(e)
      BY <2>1 DEF Entered
    <3>2. Recorded(out, prev, items)'
      BY <2>1, <2>2, <3>1 DEF Recorded
    <3>3. \A r, max : Current(items, prev, out, r, max)' = Current(items, prev, out, r, max)
      BY <2>1 DEF Current
    <3> QED BY <2>1, <2>2, <3>2, <3>3 DEF Follows
  <2> QED BY <2>1, <2>2 DEF RoundInv
<1> QED BY <1>1, <1>2, <1>3, <1>4, <1>5, <1>6 DEF Next

\* What is compressed is read back (compress, decompress): an undamaged
\* stream gives exactly the bytes it was made from when the limit admits
\* them, and is refused otherwise, whatever the input, the sizes of block and
\* table and the collisions of the hash are.
THEOREM ReadsBack == Spec => []RoundTrip
<1>1. Init /\ CompressionInv => RoundInv
  BY InitFollows DEF CompressionInv
<1>2. CompressionInv /\ RoundInv /\ [Next]_vars => RoundInv'
  BY RoundStep DEF CompressionInv
<1>3. RoundInv => RoundTrip
  <2> SUFFICES ASSUME RoundInv, phase = "decode", decoder.status # "reading"
               PROVE  IF decoder.maximum >= Len(input) THEN decoder.status = "done" /\ decoder.output = input
                      ELSE decoder.status = "refused"
    BY DEF RoundTrip
  <2>1. PICK e : Reaches(decoder, e) /\ Answer(e, input)
    BY DEF RoundInv, Answers
  <2>2. e = decoder
    BY <2>1, ReachesEnd
  <2> QED BY <2>1, <2>2 DEF Answer
<1> QED BY <1>1, <1>2, <1>3, CompressionHolds, PTL DEF Spec
=============================================================================
