---------------------------- MODULE WordStream_proofs ----------------------------
(* Proofs about the size of the words: folding wastes no bit, and the script  *)
(* chooses the unit that prng-dump writes, for every range of a PRNG.         *)
EXTENDS WordStream, TLAPS, FiniteSetTheorems, WellFoundedInduction

USE WAssumption, WidthAssumption

LEMMA LeastNumber ==
    ASSUME NEW S \in SUBSET Nat, S # {}
    PROVE  \E m \in S : \A n \in S : m <= n
<1>. DEFINE Below == OpToRel(<, Nat)
<1>1. IsWellFoundedOn(Below, Nat)
  BY NatLessThanWellFounded
<1>2. PICK m \in S : \A n \in S : <<n, m>> \notin Below
  <2>. HIDE DEF Below
  <2>. QED
    BY <1>1, WFMin
<1>3. ASSUME NEW n \in S
      PROVE  m <= n
  <2>1. ~(n < m)
    BY <1>2 DEF OpToRel
  <2>. QED
    BY <2>1
<1>. QED
  BY <1>3

(* The width of a number is one more than its highest bit.                    *)
LEMMA BitWidth ==
    ASSUME NEW r \in Word, r # {}
    PROVE  /\ bit_width(r) \in 1..W
           /\ r \subseteq 0..(bit_width(r) - 1)
           /\ bit_width(r) - 1 \in r
<1>. DEFINE Holds(n) == r \subseteq 0..(n - 1)
<1>1. Holds(W) /\ W \in Nat
  BY DEF Word, Bits
<1>2. PICK n \in Nat : Holds(n) /\ \A m \in Nat : Holds(m) => n <= m
  <2>. DEFINE S == {m \in Nat : Holds(m)}
  <2>1. S \in SUBSET Nat /\ S # {}
    BY <1>1
  <2>2. PICK n \in S : \A m \in S : n <= m
    <3>. HIDE DEF S
    <3>. QED
      BY <2>1, LeastNumber
  <2>. QED
    BY <2>2
<1>3. n > 0 /\ n <= W
  <2>1. PICK i \in r : TRUE
    OBVIOUS
  <2>2. i \in 0..(n - 1)
    BY <1>2, <2>1
  <2>. QED
    BY <1>1, <1>2, <2>2
<1>4. n - 1 \in r
  <2>1. PICK i \in r : i \notin 0..(n - 2)
    BY <1>2, <1>3
  <2>. QED
    BY <1>2, <1>3, <2>1
<1>5. \E k \in 0..W : r \subseteq 0..(k - 1) /\ (k > 0 => k - 1 \in r)
  BY <1>2, <1>3, <1>4
<1>6. /\ bit_width(r) \in 0..W
      /\ r \subseteq 0..(bit_width(r) - 1)
      /\ bit_width(r) > 0 => bit_width(r) - 1 \in r
  BY <1>5 DEF bit_width
<1>7. bit_width(r) # 0
  BY <1>6
<1>. QED
  BY <1>6, <1>7

(* At least one bit is uniform, and at most one that a value has is not.      *)
LEMMA UniformBits ==
    ASSUME NEW r \in Word, r # {}
    PROVE  /\ uniform_bits(r) \in 1..W
           /\ bit_width(r) <= uniform_bits(r) + 1
           /\ uniform_bits(r) <= bit_width(r)
<1>1. CASE bit_width(r) = 1
  <2>1. r = {0}
    BY <1>1, BitWidth
  <2>2. Cardinality(r) = 1
    BY <2>1, FS_Singleton
  <2>. QED
    BY <1>1, <2>2 DEF uniform_bits
<1>2. CASE bit_width(r) # 1
  BY <1>2, BitWidth DEF uniform_bits
<1>. QED
  BY <1>1, <1>2

(* The numbers that have n bits.                                              *)
LEMMA CountOfBits ==
    ASSUME NEW n \in Nat
    PROVE  IsFiniteSet(SUBSET (0..(n - 1))) /\ Cardinality(SUBSET (0..(n - 1))) = 2^n
<1>1. IsFiniteSet(0..(n - 1)) /\ Cardinality(0..(n - 1)) = n
  <2>1. 0 \in Int /\ n - 1 \in Int /\ (0 > n - 1 <=> n = 0) /\ (n - 1) - 0 + 1 = n
    OBVIOUS
  <2>. QED
    BY <2>1, FS_Interval
<1>. QED
  BY <1>1, FS_SUBSET

LEMMA FewerBits ==
    ASSUME NEW n \in Nat, NEW S \in SUBSET SUBSET (0..(n - 1)), S # SUBSET (0..(n - 1))
    PROVE  Cardinality(S) \in Nat /\ Cardinality(S) < 2^n
<1>. DEFINE T == SUBSET (0..(n - 1))
<1>1. IsFiniteSet(T) /\ Cardinality(T) = 2^n
  BY CountOfBits
<1>2. S \in SUBSET T /\ S # T
  OBVIOUS
<1>. HIDE DEF T
<1>3. IsFiniteSet(S) /\ Cardinality(S) <= Cardinality(T) /\ Cardinality(S) # Cardinality(T)
  BY <1>1, <1>2, FS_Subset
<1>4. Cardinality(S) \in Nat /\ Cardinality(T) \in Nat
  BY <1>1, <1>3, FS_CardinalityType
<1>. QED
  BY <1>1, <1>3, <1>4

(* The uniformly random bits of a value are floor(log2(range + 1)), whatever  *)
(* its range: the code only counts the ones of range.                         *)
THEOREM UniformBitsAreLog ==
    ASSUME NEW range \in Word, range # {}
    PROVE  IsLog(uniform_bits(range), range)
<1>. DEFINE w == bit_width(range)
            n == uniform_bits(range)
            U == UpTo(range)
<1>1. /\ w \in Nat \ {0} /\ range \subseteq 0..(w - 1) /\ w - 1 \in range
      /\ U \in SUBSET SUBSET (0..(w - 1))
      /\ U = {v \in SUBSET (0..(w - 1)) :
                 v = range \/ \E i \in range \ v : \A k \in v \ range : k < i}
  BY BitWidth DEF UpTo
<1>2. IsFiniteSet(0..(w - 1)) /\ Cardinality(0..(w - 1)) = w
  <2>1. 0 \in Int /\ w - 1 \in Int /\ ~(0 > w - 1) /\ (w - 1) - 0 + 1 = w
    BY <1>1
  <2>. QED
    BY <2>1, FS_Interval
<1>3. CASE Cardinality(range) = w
  <2>1. range = 0..(w - 1)
    <3>. HIDE DEF w
    <3>. QED
      BY <1>1, <1>2, <1>3, FS_Subset
  <2>2. U = SUBSET (0..(w - 1))
    <3>1. ASSUME NEW v \in SUBSET (0..(w - 1))
          PROVE  v \in U
      <4>1. v \ range = {} /\ (v = range \/ \E i \in range : i \notin v)
        BY <2>1
      <4>. QED
        BY <1>1, <4>1
    <3>. QED
      BY <1>1, <3>1
  <2>3. n = w
    BY <1>3 DEF uniform_bits
  <2>. HIDE DEF U, w, n
  <2>4. U # SUBSET (0..((w + 1) - 1)) /\ U \in SUBSET SUBSET (0..((w + 1) - 1))
    <3>1. w \in 0..((w + 1) - 1) /\ w \notin 0..(w - 1) /\ 0..(w - 1) \subseteq 0..((w + 1) - 1)
      BY <1>1
    <3>2. {w} \in SUBSET (0..((w + 1) - 1)) /\ {w} \notin SUBSET (0..(w - 1))
      BY <3>1
    <3>. QED
      BY <2>2, <3>1, <3>2
  <2>5. Cardinality(U) = 2^w /\ Cardinality(U) < 2^(w + 1) /\ Cardinality(U) \in Nat
    <3>1. Cardinality(U) = 2^w
      BY <1>1, <2>2, CountOfBits
    <3>2. w + 1 \in Nat
      BY <1>1
    <3>3. Cardinality(U) \in Nat /\ Cardinality(U) < 2^(w + 1)
      BY <2>4, <3>2, FewerBits
    <3>. QED
      BY <3>1, <3>3
  <2>6. 2^n <= Cardinality(U) /\ Cardinality(U) < 2^(n + 1)
    BY <2>3, <2>5
  <2>. QED
    BY <2>6 DEF IsLog, U, n
<1>4. CASE Cardinality(range) # w
  <2>1. range # 0..(w - 1)
    BY <1>2, <1>4
  <2>2. 0..(w - 1) \notin U
    <3>1. range \ (0..(w - 1)) = {}
      BY <1>1
    <3>. QED
      BY <1>1, <2>1, <3>1
  <2>3. SUBSET (0..((w - 1) - 1)) \in SUBSET U
    <3>1. ASSUME NEW v \in SUBSET (0..((w - 1) - 1))
          PROVE  v \in U
      <4>1. v \in SUBSET (0..(w - 1)) /\ w - 1 \notin v /\ \A k \in v : k < w - 1
        BY <1>1
      <4>. QED
        BY <1>1, <4>1
    <3>. QED
      BY <3>1
  <2>4. n = w - 1
    BY <1>4 DEF uniform_bits
  <2>5. U # SUBSET (0..(w - 1))
    BY <2>2
  <2>. HIDE DEF U, w, n
  <2>6. Cardinality(U) \in Nat /\ Cardinality(U) < 2^w
    BY <1>1, <2>5, FewerBits
  <2>7. 2^(w - 1) <= Cardinality(U)
    <3>1. w - 1 \in Nat
      BY <1>1
    <3>2. Cardinality(SUBSET (0..((w - 1) - 1))) = 2^(w - 1)
      BY <3>1, CountOfBits
    <3>3. IsFiniteSet(U)
      BY <1>1, CountOfBits, FS_Subset
    <3>. QED
      BY <2>3, <3>2, <3>3, FS_Subset
  <2>8. (w - 1) + 1 = w
    BY <1>1
  <2>9. 2^n <= Cardinality(U) /\ Cardinality(U) < 2^(n + 1)
    BY <2>4, <2>6, <2>7, <2>8
  <2>. QED
    BY <2>9 DEF IsLog, U, n
<1>. QED
  BY <1>3, <1>4

(* So they are throughout a run.                                              *)
THEOREM UniformBitsCounted == Spec => []UniformBitsIsLog
<1>. DEFINE Typed == gen \in Generators
<1>1. Init => Typed
  BY DEF Init
<1>2. Typed /\ [Next]_vars => Typed'
  BY DEF Next, Write, Read, Done, vars
<1>3. Typed => UniformBitsIsLog
  BY GeneratorsAssumption, UniformBitsAreLog DEF UniformBitsIsLog
<1>. QED
  BY <1>1, <1>2, <1>3, PTL DEF Spec

LEMMA BitFloor ==
    ASSUME NEW n \in 1..128
    PROVE  /\ bit_floor(n) \in {1, 2, 4, 8, 16, 32, 64, 128}
           /\ bit_floor(n) <= n /\ n < 2 * bit_floor(n)
<1>1. \E b \in {1, 2, 4} \cup Widths : b <= n /\ n < 2 * b
  BY DEF Widths
<1>. QED
  BY <1>1 DEF bit_floor, Widths

LEMMA UintBits ==
    /\ \A n \in Widths : uint_bits(n) = n
    /\ \A n \in {1, 2, 4} : uint_bits(n) = 8
<1>1. ASSUME NEW n \in {1, 2, 4} \cup Widths
      PROVE  \E b \in Widths : n <= b /\ (b = 8 \/ b < 2 * n)
  BY DEF Widths
<1>2. ASSUME NEW n \in {1, 2, 4} \cup Widths
      PROVE  uint_bits(n) \in Widths /\ n <= uint_bits(n) /\ (uint_bits(n) = 8 \/ uint_bits(n) < 2 * n)
  BY <1>1 DEF uint_bits
<1>. QED
  BY <1>2 DEF Widths

-----------------------------------------------------------------------------
(* A word is a power of two, a type of its own when it has at least eight     *)
(* bits, and a value is never wider than two words.                           *)
LEMMA WordFits ==
    ASSUME NEW g \in Generators
    PROVE  /\ word_bits(g) \in Nat \ {0} /\ word_width(g) \in Nat
           /\ word_bits(g) <= word_width(g)
           /\ bit_width(g.range) <= 2 * word_bits(g)
           /\ word_width(g) = word_bits(g) \/ (word_width(g) = 8 /\ 2 * word_bits(g) <= 8)
           /\ bit_width(g.range) \in Nat
<1>1. g.range \in Word /\ g.range # {}
  BY GeneratorsAssumption
<1>2. uniform_bits(g.range) \in 1..128 /\ bit_width(g.range) <= uniform_bits(g.range) + 1
  BY <1>1, UniformBits
<1>3. /\ word_bits(g) \in {1, 2, 4, 8, 16, 32, 64, 128}
      /\ uniform_bits(g.range) < 2 * word_bits(g)
  BY <1>2, BitFloor DEF word_bits
<1>4. word_width(g) = IF word_bits(g) \in {1, 2, 4} THEN 8 ELSE word_bits(g)
  BY <1>3, UintBits DEF word_width, Widths
<1>5. bit_width(g.range) \in Nat
  BY <1>1, BitWidth
<1>. QED
  BY <1>2, <1>3, <1>4, <1>5

(* The bit of the word that tells whether bit b of the value is set.          *)
LEMMA EachBitCounts ==
    ASSUME NEW g \in Generators, NEW v \in Word, NEW b \in 0..(bit_width(g.range) - 1)
    PROVE  word(g, v) # word(g, Xor(v, {b}))
<1>. DEFINE u == Xor(v, {b})
            n == word_bits(g)
            to == IF b < word_width(g) THEN b ELSE b - n
<1>1. /\ n \in Nat \ {0} /\ word_width(g) \in Nat /\ b \in Nat
      /\ n <= word_width(g) /\ b < 2 * n
      /\ word_width(g) = n \/ (word_width(g) = 8 /\ 2 * n <= 8)
  BY WordFits
<1>2. \A i : i \in u <=> ((i \in v) # (i = b))
  BY DEF Xor, SymDiff
<1>3. CASE word_width(g) < g.result_bits
  <2>1. to \in 0..(word_width(g) - 1) /\ to \in Nat /\ to + n # to
    BY <1>1
  <2>2. b \in Bits
    <3>1. g.range \in Word /\ g.range # {}
      BY GeneratorsAssumption
    <3>. QED
      BY <3>1, BitWidth DEF Bits
  <2>3. to \in Bits /\ (to = b \/ to + n = b)
    BY <1>1, <2>1, <2>2 DEF Bits
  <2>4. ASSUME NEW y
        PROVE  to \in Xor(y, Shr(y, n)) <=> ((to \in y) # (to + n \in y))
    BY <2>3 DEF Xor, SymDiff, Shr
  <2>5. to \in Xor(v, Shr(v, n)) <=> to \notin Xor(u, Shr(u, n))
    <3>1. (to \in u) <=> ((to \in v) # (to = b))
      BY <1>2
    <3>2. (to + n \in u) <=> ((to + n \in v) # (to + n = b))
      BY <1>2
    <3>3. (to = b) # (to + n = b)
      BY <2>1, <2>3
    <3>. HIDE DEF u, to, n
    <3>. QED
      BY <2>4, <3>1, <3>2, <3>3
  <2>. QED
    BY <1>3, <2>1, <2>5 DEF word
<1>4. CASE ~(word_width(g) < g.result_bits)
  BY <1>2, <1>4 DEF word
<1>. QED
  BY <1>3, <1>4

LEMMA ValuesAreWords ==
    ASSUME NEW g \in Generators
    PROVE  ValuesOf(g) \subseteq Word
<1>1. g.result_bits \in Nat /\ g.result_bits <= W /\ ValuesOf(g) \subseteq SUBSET (0..(g.result_bits - 1))
  BY GeneratorsAssumption DEF Widths
<1>2. 0..(g.result_bits - 1) \subseteq Bits
  BY <1>1 DEF Bits
<1>. QED
  BY <1>1, <1>2 DEF Word

(* Folding wastes no bit: whatever the range of a PRNG and the rest of its    *)
(* value, each bit that a value may have changes the word that is written.    *)
THEOREM FoldingWastesNothing == Spec => []NoBitWasted
<1>. DEFINE Typed == gen \in Generators /\ x \in Word
<1>1. Init => Typed
  BY DEF Init, Word
<1>2. Typed /\ [Next]_vars => Typed'
  BY ValuesAreWords DEF Next, Write, Read, Done, vars
<1>3. Typed => NoBitWasted
  BY EachBitCounts DEF NoBitWasted
<1>. QED
  BY <1>1, <1>2, <1>3, PTL DEF Spec

(* One of the uniformly random bits of a value turns bit j of the word over,  *)
(* and no other: bit j itself, as only bits above it are folded into the word.*)
LEMMA EachBitTurns ==
    ASSUME NEW g \in Generators, uniform_bits(g.range) >= 8,
           NEW v \in Word, NEW j \in 0..(word_width(g) - 1)
    PROVE  /\ j \in 0..(uniform_bits(g.range) - 1)
           /\ Xor(word(g, v), word(g, Xor(v, {j}))) = {j}
<1>. DEFINE u == Xor(v, {j})
            n == word_bits(g)
            width == word_width(g)
<1>1. uniform_bits(g.range) \in 1..128 /\ uniform_bits(g.range) <= W
  BY GeneratorsAssumption, UniformBits
<1>2. n \in {8, 16, 32, 64, 128} /\ n <= uniform_bits(g.range) /\ width = n
  <2>1. /\ n \in {1, 2, 4, 8, 16, 32, 64, 128}
        /\ n <= uniform_bits(g.range) /\ uniform_bits(g.range) < 2 * n
    BY <1>1, BitFloor DEF word_bits
  <2>. HIDE DEF n
  <2>2. n \in {8, 16, 32, 64, 128}
    BY <1>1, <2>1
  <2>. QED
    BY <2>1, <2>2, UintBits DEF word_width, Widths, n
<1>3. j \in 0..(uniform_bits(g.range) - 1) /\ j \in Nat /\ j < n
  BY <1>1, <1>2
<1>4. \A i : i \in u <=> ((i \in v) # (i = j))
  BY DEF Xor, SymDiff
<1>5. CASE width < g.result_bits
  <2>1. \A y : word(g, y) = Xor(y, Shr(y, n)) \cap 0..(width - 1)
    BY <1>5 DEF word
  <2>2. \A i \in 0..(width - 1) : i \in Nat /\ i \in Bits /\ i + n # j
    BY <1>1, <1>2, <1>3 DEF Bits
  <2>3. ASSUME NEW i \in 0..(width - 1), NEW y
        PROVE  i \in word(g, y) <=> ((i \in y) # (i + n \in y))
    BY <2>1, <2>2 DEF Xor, SymDiff, Shr
  <2>4. \A y : word(g, y) \subseteq 0..(width - 1)
    BY <2>1
  <2>5. ASSUME NEW i \in 0..(width - 1)
        PROVE  ((i \in word(g, v)) # (i \in word(g, u))) <=> i = j
    <3>1. (i \in word(g, v) <=> ((i \in v) # (i + n \in v)))
          /\ (i \in word(g, u) <=> ((i \in u) # (i + n \in u)))
      BY <2>3
    <3>2. (i \in u <=> ((i \in v) # (i = j))) /\ (i + n \in u <=> i + n \in v)
      BY <1>4, <2>2
    <3>. HIDE DEF u, n
    <3>. QED
      BY <3>1, <3>2
  <2>. HIDE DEF u
  <2>. QED
    BY <1>3, <2>4, <2>5 DEF Xor, SymDiff, u
<1>6. CASE ~(width < g.result_bits)
  <2>1. word(g, v) = v /\ word(g, u) = u
    BY <1>6 DEF word
  <2>2. Xor(v, u) = {j}
    BY <1>4 DEF Xor, SymDiff
  <2>. QED
    BY <1>3, <2>1, <2>2
<1>. QED
  BY <1>5, <1>6

(* A word has no more bits than there are random ones to fill it: whatever    *)
(* the range of a PRNG with at least eight and whatever the value, each bit   *)
(* of the word turns over, alone, with one of them.                           *)
THEOREM EveryBitIsRandom == Spec => []EveryBitRandom
<1>. DEFINE Typed == gen \in Generators /\ x \in Word
<1>1. Init => Typed
  BY DEF Init, Word
<1>2. Typed /\ [Next]_vars => Typed'
  BY ValuesAreWords DEF Next, Write, Read, Done, vars
<1>3. Typed => EveryBitRandom
  <2>. SUFFICES ASSUME Typed, uniform_bits(gen.range) >= 8, NEW i \in 0..(word_width(gen) - 1)
                PROVE  \E b \in 0..(uniform_bits(gen.range) - 1) :
                          {i} = Xor(word(gen, x), word(gen, Xor(x, {b})))
    BY DEF EveryBitRandom
  <2>1. /\ i \in 0..(uniform_bits(gen.range) - 1)
        /\ {i} = Xor(word(gen, x), word(gen, Xor(x, {i})))
    BY EachBitTurns
  <2>. QED
    BY <2>1
<1>. QED
  BY <1>1, <1>2, <1>3, PTL DEF Spec

(* The script computes, from the bits that prng-dump -i prints, the width of  *)
(* the word that prng-dump writes, and 64 for a word of 128 bits.             *)
THEOREM ScriptAgrees ==
    ASSUME NEW g \in Generators
    PROVE  unit_bits(g) = IF word_width(g) = 128 THEN 64 ELSE word_width(g)
<1>. DEFINE n == uniform_bits(g.range)
<1>1. n \in 1..128
  BY GeneratorsAssumption, UniformBits
<1>2. /\ word_bits(g) \in {1, 2, 4, 8, 16, 32, 64, 128}
      /\ word_bits(g) <= n /\ n < 2 * word_bits(g)
  BY <1>1, BitFloor DEF word_bits
<1>3. word_width(g) = IF word_bits(g) \in {1, 2, 4} THEN 8 ELSE word_bits(g)
  BY <1>2, UintBits DEF word_width, Widths
<1>4. unit_bits(g) = stdin(n)
  BY DEF unit_bits
<1>. HIDE DEF n
<1>. QED
  BY <1>1, <1>2, <1>3, <1>4 DEF stdin

-----------------------------------------------------------------------------
(* The bytes of a word, and the words and halves that they make.              *)

Sizes(g) == <<word_width(g) \div 8, unit_bits(g) \div 8, IF word_width(g) = 128 THEN 2 ELSE 1>>

LEMMA WordWidths ==
    ASSUME NEW g \in Generators
    PROVE  word_width(g) \in {8, 16, 32, 64, 128}
<1>1. word_bits(g) \in {1, 2, 4, 8, 16, 32, 64, 128}
  BY GeneratorsAssumption, UniformBits, BitFloor DEF word_bits
<1>. QED
  BY <1>1, UintBits DEF word_width, Widths

(* Bytes to a word, bytes to a unit, and units to a word.                     *)
LEMMA SizesAre ==
    ASSUME NEW g \in Generators
    PROVE  \/ \E c \in {1, 2, 4, 8} : word_width(g) = 8 * c /\ Sizes(g) = <<c, c, 1>>
           \/ word_width(g) = 128 /\ Sizes(g) = <<16, 8, 2>>
BY WordWidths, ScriptAgrees DEF Sizes

(* A word has no bit above its width.                                         *)
LEMMA WordInWidth ==
    ASSUME NEW g \in Generators, NEW v \in ValuesOf(g)
    PROVE  word(g, v) \in SUBSET (0..(word_width(g) - 1))
<1>1. CASE word_width(g) < g.result_bits
  BY <1>1 DEF word
<1>2. CASE ~(word_width(g) < g.result_bits)
  <2>1. g.result_bits \in Nat /\ v \subseteq 0..(g.result_bits - 1)
    BY GeneratorsAssumption DEF Widths
  <2>2. 0..(g.result_bits - 1) \subseteq 0..(word_width(g) - 1)
    BY <1>2, <2>1, WordWidths
  <2>. QED
    BY <1>2, <2>1, <2>2 DEF word
<1>. QED
  BY <1>1, <1>2

(* The c bytes of a word from byte o + 1 on, and the number they are.         *)
Cut(bytes, c, o, w, width) ==
    /\ DOMAIN bytes = 1..c
    /\ \A i \in 1..c : bytes[i] = Bytes(w, width)[o + i]
Part(w, from, bits) == {u \in 0..(bits - 1) : from + u \in w}

LEMMA UnitOfBytes ==
    ASSUME NEW c \in Nat, NEW o \in Nat, NEW width \in Nat, 8 * (o + c) <= width,
           NEW w \in SUBSET Nat, NEW bytes, Cut(bytes, c, o, w, width)
    PROVE  Unit(bytes) = Part(w, 8 * o, 8 * c)
<1>. DOMAIN bytes = 1..c /\ \A i \in 1..c : bytes[i] = Bytes(w, width)[o + i]
  BY DEF Cut
<1>1. ASSUME NEW i \in 1..c
      PROVE  bytes[i] = {b \in 0..7 : 8 * (o + i - 1) + b \in w}
  <2>. DEFINE j == o + i
  <2>1. j \in 1..(width \div 8)
    OBVIOUS
  <2>2. Bytes(w, width)[j] = {b \in 0..7 : 8 * (j - 1) + b \in w}
    <3>. HIDE DEF j
    <3>. QED
      BY <2>1 DEF Bytes
  <2>. QED
    BY <2>2
<1>2. ASSUME NEW u \in Unit(bytes)
      PROVE  u \in 0..(8 * c - 1) /\ 8 * o + u \in w
  <2>1. PICK i \in 1..c : \E b \in bytes[i] : u = 8 * (i - 1) + b
    BY DEF Unit
  <2>2. PICK b \in bytes[i] : u = 8 * (i - 1) + b
    BY <2>1
  <2>3. b \in 0..7 /\ 8 * (o + i - 1) + b \in w
    BY <1>1
  <2>4. 8 * (o + i - 1) + b = 8 * o + u
    BY <2>2, <2>3
  <2>. QED
    BY <2>2, <2>3, <2>4
<1>3. ASSUME NEW u \in 0..(8 * c - 1), 8 * o + u \in w
      PROVE  u \in Unit(bytes)
  <2>. DEFINE i == 1 + u \div 8
              b == u % 8
  <2>1. i \in 1..c /\ b \in 0..7 /\ u = 8 * (i - 1) + b
    OBVIOUS
  <2>2. 8 * (o + i - 1) + b = 8 * o + u
    BY <2>1
  <2>. HIDE DEF i, b
  <2>3. b \in bytes[i]
    BY <1>1, <1>3, <2>1, <2>2
  <2>. QED
    BY <2>1, <2>3 DEF Unit
<1>. QED
  BY <1>2, <1>3 DEF Part

(* Where the byte at a position of the stream is among words of c bytes.      *)
LEMMA Divided ==
    ASSUME NEW c \in {1, 2, 4, 8, 16}, NEW l \in Nat, NEW i \in 1..c
    PROVE  (l * c + i - 1) \div c = l /\ (l * c + i - 1) % c = i - 1
<1>1. CASE c = 1
  BY <1>1
<1>2. CASE c = 4
  BY <1>2
<1>3. CASE c = 2 \/ c = 8 \/ c = 16
  BY <1>3
<1>. QED
  BY <1>1, <1>2, <1>3

LEMMA Within ==
    ASSUME NEW c \in {1, 2, 4, 8, 16}, NEW l \in Nat, NEW p \in 1..(l * c)
    PROVE  (p - 1) \div c \in 0..(l - 1) /\ (p - 1) % c \in 0..(c - 1)
<1>1. CASE c = 1
  BY <1>1
<1>2. CASE c = 4
  BY <1>2
<1>3. CASE c = 2 \/ c = 8 \/ c = 16
  BY <1>3
<1>. QED
  BY <1>1, <1>2, <1>3

LEMMA OfUnit ==
    ASSUME NEW g \in Generators, NEW m \in Nat, NEW i \in 1..Sizes(g)[2]
    PROVE  LET p == m * Sizes(g)[2] + i - 1
               h == m % Sizes(g)[3]
           IN  /\ p \div Sizes(g)[1] = m \div Sizes(g)[3]
               /\ p % Sizes(g)[1] = h * Sizes(g)[2] + i - 1
               /\ m \div Sizes(g)[3] \in Nat /\ h \in 0..(Sizes(g)[3] - 1)
<1>1. ASSUME NEW c \in {1, 2, 4, 8}, Sizes(g) = <<c, c, 1>>
      PROVE  LET p == m * c + i - 1
             IN  /\ p \div c = m \div 1 /\ p % c = (m % 1) * c + i - 1
                 /\ m \div 1 \in Nat /\ m % 1 \in 0..0
  <2>1. i \in 1..c
    BY <1>1
  <2>2. m \div 1 = m /\ m % 1 = 0
    OBVIOUS
  <2>3. (m * c + i - 1) \div c = m /\ (m * c + i - 1) % c = i - 1
    BY <2>1, Divided
  <2>4. 0 * c + i - 1 = i - 1
    BY <2>1
  <2>. QED
    BY <2>2, <2>3, <2>4
<1>2. ASSUME Sizes(g) = <<16, 8, 2>>
      PROVE  LET p == m * 8 + i - 1
             IN  /\ p \div 16 = m \div 2 /\ p % 16 = (m % 2) * 8 + i - 1
                 /\ m \div 2 \in Nat /\ m % 2 \in 0..1
  <2>1. i \in 1..8
    BY <1>2
  <2>. QED
    BY <2>1
<1>. QED
  BY <1>1, <1>2, SizesAre

(* A unit is the half of a word that it is the bytes of, or all of it.        *)
LEMMA HalfOf ==
    ASSUME gen \in Generators, NEW w \in SUBSET (0..(word_width(gen) - 1)),
           NEW h \in 0..(Sizes(gen)[3] - 1), NEW bytes,
           Cut(bytes, Sizes(gen)[2], h * Sizes(gen)[2], w, word_width(gen))
    PROVE  Unit(bytes) = Halves(w)[1 + h]
<1>1. w \in SUBSET Nat
  BY WordWidths
<1>2. ASSUME NEW c \in {1, 2, 4, 8}, word_width(gen) = 8 * c, Sizes(gen) = <<c, c, 1>>
      PROVE  Unit(bytes) = Halves(w)[1 + h]
  <2>1. h = 0 /\ c \in Nat /\ 0 \in Nat /\ word_width(gen) \in Nat /\ h * c = 0
    BY <1>2
  <2>2. Cut(bytes, c, 0, w, word_width(gen)) /\ 8 * (0 + c) <= word_width(gen)
    BY <1>2, <2>1
  <2>3. Unit(bytes) = Part(w, 8 * 0, 8 * c)
    BY <1>1, <2>1, <2>2, UnitOfBytes
  <2>4. w \subseteq 0..(8 * c - 1)
    BY <1>2
  <2>5. Part(w, 8 * 0, 8 * c) = w
    <3>1. ASSUME NEW u \in 0..(8 * c - 1)
          PROVE  8 * 0 + u = u
      BY <2>1
    <3>. QED
      BY <2>4, <3>1 DEF Part
  <2>6. Halves(w) = <<w>>
    BY <1>2 DEF Halves
  <2>. QED
    BY <2>1, <2>3, <2>5, <2>6
<1>3. ASSUME word_width(gen) = 128, Sizes(gen) = <<16, 8, 2>>
      PROVE  Unit(bytes) = Halves(w)[1 + h]
  <2>1. h \in {0, 1}
    BY <1>3
  <2>2. Halves(w) = <<w \cap 0..63, {i - 64 : i \in w \cap 64..127}>>
    BY <1>3 DEF Halves
  <2>3. ASSUME NEW o \in Nat, o = h * 8
        PROVE  Unit(bytes) = Part(w, 8 * o, 8 * 8)
    <3>1. 8 \in Nat /\ 128 \in Nat /\ 8 * (o + 8) <= 128
      BY <2>1, <2>3
    <3>2. Cut(bytes, 8, o, w, 128)
      BY <1>3, <2>3
    <3>. QED
      BY <1>1, <3>1, <3>2, UnitOfBytes
  <2>4. CASE h = 0
    <3>1. Unit(bytes) = Part(w, 8 * 0, 8 * 8)
      BY <2>3, <2>4
    <3>2. Part(w, 8 * 0, 8 * 8) = w \cap 0..63
      BY <1>1 DEF Part
    <3>. QED
      BY <2>2, <2>4, <3>1, <3>2
  <2>5. CASE h = 1
    <3>1. Unit(bytes) = Part(w, 8 * 8, 8 * 8)
      BY <2>3, <2>5
    <3>2. ASSUME NEW u \in Part(w, 8 * 8, 8 * 8)
          PROVE  \E i \in w \cap 64..127 : u = i - 64
      <4>1. 64 + u \in w \cap 64..127 /\ u = (64 + u) - 64
        BY <3>2 DEF Part
      <4>. QED
        BY <4>1
    <3>3. ASSUME NEW i \in w \cap 64..127
          PROVE  i - 64 \in Part(w, 8 * 8, 8 * 8)
      <4>1. i - 64 \in 0..(8 * 8 - 1) /\ 8 * 8 + (i - 64) = i
        OBVIOUS
      <4>. QED
        BY <4>1 DEF Part
    <3>4. Part(w, 8 * 8, 8 * 8) = {i - 64 : i \in w \cap 64..127}
      BY <3>2, <3>3
    <3>. QED
      BY <2>2, <2>5, <3>1, <3>4
  <2>. QED
    BY <2>1, <2>4, <2>5
<1>. QED
  BY <1>2, <1>3, SizesAre

-----------------------------------------------------------------------------
(* The bytes in the pipe are those of the words that follow the units read.   *)
Follows(g, ws, st, us) ==
    LET c == Sizes(g)[1]
        past == Len(us) * Sizes(g)[2]
    IN  /\ past + Len(st) = Len(ws) * c
        /\ \A j \in 1..Len(st) :
              st[j] = Bytes(ws[1 + (past + j - 1) \div c], word_width(g))[1 + ((past + j - 1) % c)]

AsWritten(ws, us) ==
    \A i \in 1..Len(us) :
        us[i] = Halves(ws[1 + (i - 1) \div Sizes(gen)[3]])[1 + ((i - 1) % Sizes(gen)[3])]

WordsOf(g) == SUBSET (0..(word_width(g) - 1))

LEMMA BytesOfWord ==
    ASSUME NEW g \in Generators, NEW w
    PROVE  /\ Bytes(w, word_width(g)) \in Seq(SUBSET (0..7))
           /\ Len(Bytes(w, word_width(g))) = Sizes(g)[1]
           /\ Sizes(g)[1] \in {1, 2, 4, 8, 16}
<1>1. word_width(g) \div 8 = Sizes(g)[1] /\ Sizes(g)[1] \in {1, 2, 4, 8, 16}
  <2>1. Sizes(g)[1] = word_width(g) \div 8
    BY DEF Sizes
  <2>. QED
    BY <2>1, SizesAre
<1>2. Bytes(w, word_width(g)) \in [1..Sizes(g)[1] -> SUBSET (0..7)]
  BY <1>1 DEF Bytes
<1>. QED
  BY <1>1, <1>2

LEMMA WriteFollows ==
    ASSUME NEW g \in Generators, NEW ws \in Seq(WordsOf(g)), NEW w \in WordsOf(g),
           NEW st \in Seq(SUBSET (0..7)), NEW us \in Seq(SUBSET Nat), Follows(g, ws, st, us)
    PROVE  Follows(g, Append(ws, w), st \o Bytes(w, word_width(g)), us)
<1>. DEFINE c == Sizes(g)[1]
            past == Len(us) * Sizes(g)[2]
            b == Bytes(w, word_width(g))
            l == Len(ws)
            more == st \o b
            At(seq, j) == Bytes(seq[1 + (past + j - 1) \div c], word_width(g))[1 + ((past + j - 1) % c)]
<1>1. c \in {1, 2, 4, 8, 16} /\ b \in Seq(SUBSET (0..7)) /\ Len(b) = c /\ l \in Nat
  BY BytesOfWord
<1>2. past + Len(st) = l * c /\ \A j \in 1..Len(st) : st[j] = At(ws, j)
  BY DEF Follows
<1>3. past \in Nat
  BY SizesAre
<1>4. Len(Append(ws, w)) = l + 1 /\ Len(more) = Len(st) + c /\ (l + 1) * c = l * c + c
  BY <1>1, SMTT(30)
<1>5. ASSUME NEW j \in 1..Len(st)
      PROVE  more[j] = At(Append(ws, w), j)
  <2>. DEFINE p == past + j
  <2>1. p \in 1..(l * c)
    <3>1. l * c \in Nat /\ Len(st) \in Nat /\ past + Len(st) = l * c
      BY <1>1, <1>2
    <3>. HIDE DEF past, l, c
    <3>. QED
      BY <1>3, <3>1
  <2>2. (p - 1) \div c \in 0..(l - 1)
    <3>. HIDE DEF p, c, l
    <3>. QED
      BY <1>1, <2>1, Within
  <2>3. At(Append(ws, w), j) = At(ws, j)
    <3>. DEFINE q == (past + j - 1) \div c
    <3>1. q \in 0..(l - 1)
      <4>1. past + j - 1 = p - 1
        BY <1>3
      <4>. HIDE DEF c, l, past, p
      <4>. QED
        BY <2>2, <4>1
    <3>2. Append(ws, w)[1 + q] = ws[1 + q]
      <4>. HIDE DEF q
      <4>. QED
        BY <3>1
    <3>. QED
      BY <3>2
  <2>4. more[j] = st[j] /\ st[j] = At(ws, j)
    <3>. HIDE DEF b, At
    <3>. QED
      BY <1>1, <1>2
  <2>. HIDE DEF more, At
  <2>. QED
    BY <2>3, <2>4
<1>6. ASSUME NEW j \in (Len(st) + 1)..(Len(st) + c)
      PROVE  more[j] = At(Append(ws, w), j)
  <2>. DEFINE i == j - Len(st)
  <2>1. i \in 1..c /\ past + j - 1 = l * c + i - 1
    <3>. DEFINE m == l * c
    <3>1. m \in Nat /\ c \in Nat /\ Len(st) \in Nat /\ past + Len(st) = m
      BY <1>1, <1>2
    <3>2. j \in (Len(st) + 1)..(Len(st) + c)
      OBVIOUS
    <3>. HIDE DEF past, m, c
    <3>3. i \in 1..c /\ past + j - 1 = m + i - 1
      BY <1>3, <3>1, <3>2
    <3>. QED
      BY <3>3 DEF m
  <2>2. (past + j - 1) \div c = l /\ (past + j - 1) % c = i - 1
    <3>. HIDE DEF i, c, l, past
    <3>1. (l * c + i - 1) \div c = l /\ (l * c + i - 1) % c = i - 1
      BY <1>1, <2>1, Divided
    <3>. QED
      BY <2>1, <3>1
  <2>3. Append(ws, w)[1 + l] = w
    OBVIOUS
  <2>4. more[j] = b[i] /\ 1 + (i - 1) = i
    <3>. HIDE DEF b, c
    <3>. QED
      BY <1>1, <2>1
  <2>. HIDE DEF i, l, c, b, past
  <2>. QED
    BY <2>2, <2>3, <2>4 DEF b
<1>7. \A j \in 1..Len(more) : more[j] = At(Append(ws, w), j)
  <2>1. 1..Len(more) = (1..Len(st)) \cup ((Len(st) + 1)..(Len(st) + c))
    BY <1>1, <1>4
  <2>. HIDE DEF more, At
  <2>. QED
    BY <1>5, <1>6, <2>1
<1>8. past + Len(more) = Len(Append(ws, w)) * c
  BY <1>1, <1>2, <1>3, <1>4, SMTT(30)
<1>. QED
  BY <1>7, <1>8 DEF Follows

(* Words written later do not move the earlier ones, nor the units of them.   *)
LEMMA UnitInWords ==
    ASSUME NEW g \in Generators, NEW l \in Nat, NEW m \in Nat,
           m * Sizes(g)[2] < l * Sizes(g)[1]
    PROVE  1 + m \div Sizes(g)[3] \in 1..l /\ 1 \in 1..Sizes(g)[2]
<1>1. 1 \in 1..Sizes(g)[2] /\ Sizes(g)[1] \in {1, 2, 4, 8, 16} /\ Sizes(g)[2] \in Nat
  BY SizesAre
<1>2. (m * Sizes(g)[2] + 1 - 1) \div Sizes(g)[1] = m \div Sizes(g)[3]
  BY <1>1, OfUnit
<1>3. m * Sizes(g)[2] + 1 \in 1..(l * Sizes(g)[1])
  <2>. DEFINE a == m * Sizes(g)[2]
              b == l * Sizes(g)[1]
  <2>1. a \in Nat /\ b \in Nat /\ a < b
    BY <1>1
  <2>. HIDE DEF a, b
  <2>2. a + 1 \in 1..b
    BY <2>1
  <2>. QED
    BY <2>2 DEF a, b
<1>4. (m * Sizes(g)[2] + 1 - 1) \div Sizes(g)[1] \in 0..(l - 1)
  BY <1>1, <1>3, Within
<1>. QED
  BY <1>1, <1>2, <1>4

LEMMA WriteAsWritten ==
    ASSUME gen \in Generators, NEW ws \in Seq(WordsOf(gen)), NEW w \in WordsOf(gen),
           NEW st \in Seq(SUBSET (0..7)), NEW us \in Seq(SUBSET Nat),
           Follows(gen, ws, st, us), AsWritten(ws, us)
    PROVE  AsWritten(Append(ws, w), us)
<1>. DEFINE n == Sizes(gen)[3]
<1>1. ASSUME NEW i \in 1..Len(us)
      PROVE  Append(ws, w)[1 + (i - 1) \div n] = ws[1 + (i - 1) \div n]
  <2>. DEFINE m == i - 1
              q == 1 + m \div n
  <2>1. m \in Nat /\ Len(ws) \in Nat /\ m * Sizes(gen)[2] < Len(ws) * Sizes(gen)[1]
    <3>1. Len(us) * Sizes(gen)[2] + Len(st) = Len(ws) * Sizes(gen)[1]
      BY DEF Follows
    <3>2. m * Sizes(gen)[2] < Len(us) * Sizes(gen)[2]
      BY SizesAre
    <3>3. /\ m * Sizes(gen)[2] \in Nat /\ Len(us) * Sizes(gen)[2] \in Nat
          /\ Len(ws) * Sizes(gen)[1] \in Nat
      BY SizesAre, SMTT(30)
    <3>4. m \in Nat /\ Len(ws) \in Nat /\ Len(st) \in Nat
      OBVIOUS
    <3>. HIDE DEF m
    <3>. QED
      BY <3>1, <3>2, <3>3, <3>4
  <2>2. q \in 1..Len(ws)
    <3>. HIDE DEF m
    <3>. QED
      BY <2>1, UnitInWords
  <2>3. Append(ws, w)[q] = ws[q]
    <3>. HIDE DEF q
    <3>. QED
      BY <2>2
  <2>. QED
    BY <2>3
<1>. QED
  BY <1>1 DEF AsWritten

LEMMA ReadFollows ==
    ASSUME NEW g \in Generators, NEW ws \in Seq(WordsOf(g)),
           NEW st \in Seq(SUBSET (0..7)), NEW us \in Seq(SUBSET Nat), NEW u \in SUBSET Nat,
           Follows(g, ws, st, us), Len(st) >= Sizes(g)[2]
    PROVE  Follows(g, ws, SubSeq(st, Sizes(g)[2] + 1, Len(st)), Append(us, u))
<1>. DEFINE b == Sizes(g)[2]
            c == Sizes(g)[1]
            past == Len(us) * b
            now == Len(Append(us, u)) * b
            rest == SubSeq(st, b + 1, Len(st))
<1>1. b \in {1, 2, 4, 8} /\ b <= Len(st)
  BY SizesAre
<1>2. /\ Len(rest) = Len(st) - b
      /\ \A j \in 1..Len(rest) : rest[j] = st[b + j] /\ b + j \in 1..Len(st)
  <2>. HIDE DEF b
  <2>. QED
    BY <1>1
<1>3. now = past + b /\ past \in Nat
  BY <1>1, SMTT(30)
<1>4. ASSUME NEW j \in 1..Len(rest)
      PROVE  rest[j] = Bytes(ws[1 + (now + j - 1) \div c], word_width(g))[1 + ((now + j - 1) % c)]
  <2>1. now + j - 1 = past + (b + j) - 1
    <3>. HIDE DEF past, b, now
    <3>. QED
      BY <1>1, <1>2, <1>3
  <2>2. b + j \in 1..Len(st) /\ rest[j] = st[b + j]
    BY <1>2
  <2>3. st[b + j] = Bytes(ws[1 + (past + (b + j) - 1) \div c], word_width(g))
                        [1 + ((past + (b + j) - 1) % c)]
    BY <2>2 DEF Follows
  <2>. HIDE DEF past, b, now, rest, c
  <2>. QED
    BY <2>1, <2>2, <2>3
<1>5. now + Len(rest) = Len(ws) * c
  <2>1. past + Len(st) = Len(ws) * c
    BY DEF Follows
  <2>. HIDE DEF past, b, rest, now, c
  <2>. QED
    BY <1>1, <1>2, <1>3, <2>1
<1>. HIDE DEF rest
<1>. QED
  BY <1>4, <1>5 DEF Follows, rest

LEMMA ReadAsWritten ==
    ASSUME gen \in Generators, NEW ws \in Seq(WordsOf(gen)),
           NEW st \in Seq(SUBSET (0..7)), NEW us \in Seq(SUBSET Nat),
           Follows(gen, ws, st, us), AsWritten(ws, us), Len(st) >= Sizes(gen)[2]
    PROVE  LET u == Unit(SubSeq(st, 1, Sizes(gen)[2]))
           IN  AsWritten(ws, Append(us, u))
<1>. DEFINE b == Sizes(gen)[2]
            n == Sizes(gen)[3]
            m == Len(us)
            h == m % n
            bytes == SubSeq(st, 1, b)
            w == ws[1 + m \div n]
<1>1. b \in 1..8 /\ m \in Nat /\ b <= Len(st)
  BY SizesAre
<1>2. DOMAIN bytes = 1..b /\ \A i \in 1..b : bytes[i] = st[i] /\ i \in 1..Len(st)
  <2>. HIDE DEF b
  <2>. QED
    BY <1>1
<1>3. w \in WordsOf(gen)
  <2>1. m * b + Len(st) = Len(ws) * Sizes(gen)[1]
    BY DEF Follows
  <2>2. m * b < Len(ws) * Sizes(gen)[1]
    <3>1. m * b \in Nat
      BY <1>1
    <3>. HIDE DEF m, b
    <3>. QED
      BY <1>1, <2>1, <3>1 DEF b
  <2>3. 1 + m \div n \in 1..Len(ws)
    <3>. HIDE DEF m
    <3>. QED
      BY <1>1, <2>2, UnitInWords
  <2>. QED
    BY <2>3
<1>4. h \in 0..(n - 1)
  BY <1>1, OfUnit
<1>5. Cut(bytes, b, h * b, w, word_width(gen))
  <2>1. ASSUME NEW i \in 1..b
        PROVE  bytes[i] = Bytes(w, word_width(gen))[h * b + i]
    <3>1. st[i] = Bytes(ws[1 + (m * b + i - 1) \div Sizes(gen)[1]], word_width(gen))
                      [1 + ((m * b + i - 1) % Sizes(gen)[1])]
      BY <1>2 DEF Follows
    <3>2. /\ (m * b + i - 1) \div Sizes(gen)[1] = m \div n
          /\ (m * b + i - 1) % Sizes(gen)[1] = h * b + i - 1
      BY <1>1, OfUnit
    <3>3. 1 + (h * b + i - 1) = h * b + i
      BY <1>1, <1>4, SizesAre
    <3>. HIDE DEF m, b, h, n
    <3>. QED
      BY <1>2, <3>1, <3>2, <3>3 DEF b
  <2>. QED
    BY <1>2, <2>1 DEF Cut
<1>6. Unit(bytes) = Halves(w)[1 + h]
  <2>1. w \in SUBSET (0..(word_width(gen) - 1))
    BY <1>3 DEF WordsOf
  <2>. HIDE DEF w, h, bytes
  <2>. QED
    BY <1>2, <1>4, <1>5, <2>1, HalfOf
<1>7. ASSUME NEW i \in 1..(m + 1)
      PROVE  Append(us, Unit(bytes))[i] =
                 Halves(ws[1 + (i - 1) \div n])[1 + ((i - 1) % n)]
  <2>1. CASE i = m + 1
    <3>1. i - 1 = m /\ Append(us, Unit(bytes))[i] = Unit(bytes)
      BY <2>1
    <3>. HIDE DEF m, n, bytes
    <3>. QED
      BY <1>6, <3>1
  <2>2. CASE i # m + 1
    <3>1. i \in 1..Len(us) /\ Append(us, Unit(bytes))[i] = us[i]
      BY <2>2
    <3>. HIDE DEF m, bytes
    <3>. QED
      BY <3>1 DEF AsWritten
  <2>. QED
    BY <2>1, <2>2
<1>8. Len(Append(us, Unit(bytes))) = m + 1
  OBVIOUS
<1>. HIDE DEF bytes
<1>. QED
  BY <1>7, <1>8 DEF AsWritten, bytes

-----------------------------------------------------------------------------
Typed ==
    /\ gen \in Generators
    /\ words \in Seq(WordsOf(gen))
    /\ stream \in Seq(SUBSET (0..7))
    /\ units \in Seq(SUBSET Nat)

(* What is in the pipe is what has been written and not been read yet, from   *)
(* the beginning of a unit on.                                                *)
InStep ==
    /\ Typed
    /\ Follows(gen, words, stream, units)
    /\ AsWritten(words, units)

LEMMA InStepAtFirst == Init => InStep
<1>. SUFFICES ASSUME Init PROVE InStep
  OBVIOUS
<1>1. Typed
  BY DEF Init, Typed
<1>2. Follows(gen, words, stream, units)
  BY SizesAre DEF Init, Follows
<1>3. AsWritten(words, units)
  BY DEF Init, AsWritten
<1>. QED
  BY <1>1, <1>2, <1>3 DEF InStep

LEMMA InStepWrite ==
    ASSUME InStep, Write
    PROVE  InStep'
<1>. DEFINE w == word(gen, x')
            b == Bytes(w, word_width(gen))
<1>1. /\ gen \in Generators /\ words \in Seq(WordsOf(gen))
      /\ stream \in Seq(SUBSET (0..7)) /\ units \in Seq(SUBSET Nat)
      /\ Follows(gen, words, stream, units) /\ AsWritten(words, units)
  BY DEF InStep, Typed
<1>2. /\ x' \in ValuesOf(gen) /\ words' = Append(words, w) /\ stream' = stream \o b
      /\ gen' = gen /\ units' = units
  BY DEF Write
<1>3. w \in WordsOf(gen)
  BY <1>1, <1>2, WordInWidth DEF WordsOf
<1>4. b \in Seq(SUBSET (0..7))
  BY <1>1, BytesOfWord
<1>. HIDE DEF w
<1>5. Follows(gen, words', stream', units)
  BY <1>1, <1>2, <1>3, WriteFollows
<1>6. AsWritten(words', units)
  BY <1>1, <1>2, <1>3, WriteAsWritten
<1>7. AsWritten(words, units)' = AsWritten(words', units)
  BY <1>2 DEF AsWritten, Halves
<1>8. Typed'
  <2>. HIDE DEF b
  <2>. QED
    BY <1>1, <1>2, <1>3, <1>4 DEF Typed
<1>. QED
  BY <1>2, <1>5, <1>6, <1>7, <1>8 DEF InStep

LEMMA UnitIsNumber ==
    ASSUME NEW bytes \in Seq(SUBSET (0..7))
    PROVE  Unit(bytes) \in SUBSET Nat
<1>1. ASSUME NEW u \in Unit(bytes)
      PROVE  u \in Nat
  <2>1. PICK i \in 1..Len(bytes) : \E b \in bytes[i] : u = 8 * (i - 1) + b
    BY DEF Unit
  <2>2. PICK b \in bytes[i] : u = 8 * (i - 1) + b
    BY <2>1
  <2>3. b \in 0..7
    OBVIOUS
  <2>. QED
    BY <2>2, <2>3
<1>. QED
  BY <1>1

LEMMA InStepRead ==
    ASSUME InStep, Read
    PROVE  InStep'
<1>. DEFINE n == Sizes(gen)[2]
            u == Unit(SubSeq(stream, 1, n))
<1>1. /\ gen \in Generators /\ words \in Seq(WordsOf(gen))
      /\ stream \in Seq(SUBSET (0..7)) /\ units \in Seq(SUBSET Nat)
      /\ Follows(gen, words, stream, units) /\ AsWritten(words, units)
  BY DEF InStep, Typed
<1>2. n = unit_bits(gen) \div 8 /\ n \in 1..8
  <2>1. n = unit_bits(gen) \div 8
    BY DEF Sizes
  <2>. QED
    BY <1>1, <2>1, SizesAre
<1>3. /\ Len(stream) >= n /\ stream' = SubSeq(stream, n + 1, Len(stream))
      /\ units' = Append(units, u) /\ gen' = gen /\ words' = words
  BY <1>2 DEF Read
<1>4. u \in SUBSET Nat
  <2>1. SubSeq(stream, 1, n) \in Seq(SUBSET (0..7))
    <3>. HIDE DEF n
    <3>. QED
      BY <1>1, <1>2, <1>3, SMTT(30)
  <2>. QED
    BY <2>1, UnitIsNumber
<1>5. AsWritten(words, units')
  BY <1>1, <1>3, ReadAsWritten
<1>6. Follows(gen, words, stream', units')
  <2>. HIDE DEF u
  <2>. QED
    BY <1>1, <1>3, <1>4, ReadFollows
<1>7. AsWritten(words, units)' = AsWritten(words, units')
  BY <1>3 DEF AsWritten, Halves
<1>8. Typed'
  <2>. HIDE DEF u, n
  <2>. QED
    BY <1>1, <1>2, <1>3, <1>4, SMTT(30) DEF Typed
<1>. QED
  BY <1>3, <1>5, <1>6, <1>7, <1>8 DEF InStep

(* The units that RNG_test reads are the words that prng-dump wrote, or their *)
(* halves, in the same order: for every range of up to 128 bits, every value  *)
(* and any number of words.                                                   *)
THEOREM UnitsAreTheWords == Spec => []UnitsAreWords
<1>1. InStep /\ [Next]_vars => InStep'
  <2>. SUFFICES ASSUME InStep, [Next]_vars PROVE InStep'
    OBVIOUS
  <2>1. CASE Write
    BY <2>1, InStepWrite
  <2>2. CASE Read
    BY <2>2, InStepRead
  <2>3. CASE UNCHANGED vars
    BY <2>3 DEF vars, InStep, Typed, Follows, AsWritten, Halves
  <2>. QED
    BY <2>1, <2>2, <2>3 DEF Next, Done
<1>2. InStep => UnitsAreWords
  <2>. SUFFICES ASSUME InStep PROVE UnitsAreWords
    OBVIOUS
  <2>1. gen \in Generators /\ units \in Seq(SUBSET Nat) /\ AsWritten(words, units)
    BY DEF InStep, Typed
  <2>. DEFINE n == Len(Halves({}))
  <2>2. Sizes(gen)[3] = n
    BY DEF Sizes, Halves
  <2>3. ASSUME NEW i \in DOMAIN units
        PROVE  units[i] = Halves(words[1 + (i - 1) \div n])[1 + ((i - 1) % n)]
    <3>. HIDE DEF n
    <3>. QED
      BY <2>1, <2>2 DEF AsWritten
  <2>. QED
    BY <2>3 DEF UnitsAreWords
<1>. QED
  BY InStepAtFirst, <1>1, <1>2, PTL DEF Spec
=============================================================================
