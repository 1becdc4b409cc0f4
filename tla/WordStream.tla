------------------------------- MODULE WordStream -------------------------------
(* The words that prng-dump writes, as the bytes in the pipe, and the units   *)
(* that RNG_test reads from it: no byte says where a word begins, so that     *)
(* both ends have to choose the same size, each by its own arithmetic.        *)
EXTENDS WordSize

CONSTANTS
    Generators,     \* PRNGs: the width of result_type and the range
    ValuesOf(_),    \* values of gen() - min() of a PRNG
    MaxWords,       \* bound: words written
    MaxBits         \* bound: bits of the ranges whose values are counted

ASSUME GeneratorsAssumption ==
    \A g \in Generators :
        /\ g.result_bits \in Widths /\ g.result_bits <= W
        /\ g.range \in Word \ {{}}
        /\ bit_width(g.range) <= g.result_bits
        /\ ValuesOf(g) \subseteq SUBSET (0..(g.result_bits - 1))

VARIABLES
    gen,        \* the PRNG
    x,          \* its last value
    words,      \* history: the words written
    stream,     \* the bytes in the pipe
    units       \* the units read

vars == <<gen, x, words, stream, units>>

Init ==
    /\ gen \in Generators
    /\ x = {}
    /\ words = <<>> /\ stream = <<>> /\ units = <<>>

(* The bytes of a word, least significant first, and the number in some bytes.*)
Bytes(w, width) ==
    [i \in 1..(width \div 8) |-> {b \in 0..7 : 8 * (i - 1) + b \in w}]
Unit(bytes) == UNION {{8 * (i - 1) + b : b \in bytes[i]} : i \in DOMAIN bytes}

(* The inner loop of prng_dump.                                               *)
Write ==
    /\ Len(words) < MaxWords
    /\ x' \in ValuesOf(gen)
    /\ words' = Append(words, word(gen, x'))
    /\ stream' = stream \o Bytes(word(gen, x'), word_width(gen))
    /\ UNCHANGED <<gen, units>>

(* RNG_test reads a unit.                                                     *)
Read ==
    LET n == unit_bits(gen) \div 8
    IN  /\ Len(stream) >= n
        /\ units' = Append(units, Unit(SubSeq(stream, 1, n)))
        /\ stream' = SubSeq(stream, n + 1, Len(stream))
        /\ UNCHANGED <<gen, x, words>>

(* Everything has been read.                                                  *)
Done ==
    /\ Len(words) = MaxWords
    /\ stream = <<>>
    /\ UNCHANGED vars

Next == Write \/ Read \/ Done

Spec == Init /\ [][Next]_vars

-----------------------------------------------------------------------------
(* "A 128-bit word is read as two 64-bit words."                              *)
Halves(w) ==
    IF word_width(gen) = 128
    THEN <<w \cap 0..63, {i - 64 : i \in w \cap 64..127}>>
    ELSE <<w>>

(* "stdinN must match the size of the words prng-dump writes": a unit that    *)
(* RNG_test reads is a word that was written, or the half of one of 128 bits, *)
(* and they come in the same order.                                           *)
UnitsAreWords ==
    LET n == Len(Halves({}))
    IN  \A i \in DOMAIN units :
            units[i] = Halves(words[1 + (i - 1) \div n])[1 + ((i - 1) % n)]

(* "XOR the high (otherwise unused) bits into the low bits so they aren't     *)
(* wasted": whatever the other bits are, each bit that a value may have       *)
(* changes the word.                                                          *)
NoBitWasted ==
    \A b \in 0..(bit_width(gen.range) - 1) : word(gen, x) # word(gen, Xor(x, {b}))

(* The word has no more bits than there are random ones to fill it: whatever  *)
(* the value is, one of its uniformly random bits turns each bit of the word  *)
(* over and no other, so that with those bits all words come equally often.   *)
(* A word has at least eight bits; with fewer uniform ones there is none for  *)
(* each, and no such PRNG is registered.                                      *)
EveryBitRandom ==
    uniform_bits(gen.range) >= 8 =>
        LET Turned(b) == Xor(word(gen, x), word(gen, Xor(x, {b})))
            turned    == {Turned(b) : b \in 0..(uniform_bits(gen.range) - 1)}
        IN  \A i \in 0..(word_width(gen) - 1) : {i} \in turned

(* The numbers from 0 to range.                                               *)
UpTo(range) ==
    {v \in SUBSET (0..(bit_width(range) - 1)) :
        v = range \/ \E i \in range \ v : \A k \in v \ range : k < i}

IsLog(n, range) ==
    2^n <= Cardinality(UpTo(range)) /\ Cardinality(UpTo(range)) < 2^(n + 1)

(* uniform_bits is floor(log2(range + 1)), which its code never computes: so  *)
(* many bits of a value take all their values.                                *)
UniformBitsIsLog ==
    bit_width(gen.range) <= MaxBits => IsLog(uniform_bits(gen.range), gen.range)
=============================================================================
