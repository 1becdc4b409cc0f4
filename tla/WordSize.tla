-------------------------------- MODULE WordSize --------------------------------
(* From a value of a PRNG to a unit that RNG_test reads: the bits of a value  *)
(* that are uniformly random (uniform_bits.hpp), the word that prng_dump      *)
(* writes for it (prng-dump.cpp), and the unit that test-prng-dump.bash       *)
(* chooses for the same PRNG.                                                 *)
(*                                                                            *)
(* A number is a word of Words: the set of its bits.                          *)
EXTENDS Words

(* W is the width of the widest result_type.                                  *)
ASSUME WidthAssumption == W <= 128

-----------------------------------------------------------------------------
(* std::bit_width: the fewest bits that hold the number.                      *)
bit_width(r) ==
    CHOOSE n \in 0..W : r \subseteq 0..(n - 1) /\ (n > 0 => n - 1 \in r)

uniform_bits_Rounded(range) ==      \* mutant: range itself in place of range + 1
    IF bit_width(range) > 1 THEN bit_width(range) - 1 ELSE 1

(* The uniformly random bits in a value drawn from 0 to range: all its bits   *)
(* when they are all ones, else one less.                                     *)
uniform_bits(range) ==
    IF Cardinality(range) = bit_width(range) THEN bit_width(range) ELSE bit_width(range) - 1

Widths == {8, 16, 32, 64, 128}

(* std::bit_floor, of numbers from 1 to 255.                                  *)
bit_floor(n) == CHOOSE b \in {1, 2, 4} \cup Widths : b <= n /\ n < 2 * b

(* The width of the narrowest unsigned type that has n bits.                  *)
uint_bits(n) == CHOOSE b \in Widths : n <= b /\ (b = 8 \/ b < 2 * n)

-----------------------------------------------------------------------------
(* prng_dump: a PRNG is known by the width of its result_type and its range,  *)
(* the largest value of gen() - min().                                        *)

word_bits_Ceil(g) ==    \* mutant: bit_ceil
    uint_bits(uniform_bits(g.range))

word_bits(g) == bit_floor(uniform_bits(g.range))
word_width(g) == uint_bits(word_bits(g))

word_Truncated(g, x) ==       \* mutant: the high bits are dropped
    x \cap 0..(word_width(g) - 1)

(* The word that is written for the value x: when it is narrower than x, the  *)
(* high bits of x are folded into the low ones.                               *)
word(g, x) ==
    IF word_width(g) < g.result_bits
    THEN Xor(x, Shr(x, word_bits(g))) \cap 0..(word_width(g) - 1)
    ELSE x

-----------------------------------------------------------------------------
stdin_Above(result_size_bits) ==    \* mutant: > in place of >=
    CASE result_size_bits > 64 -> 64
      [] result_size_bits \in 33..64 -> 32
      [] result_size_bits \in 17..32 -> 16
      [] result_size_bits <= 16 -> 8

(* The N of the stdinN of the script, for the bits that prng-dump -i prints.  *)
(* With fewer than eight it is plain stdin, which reads bytes.                *)
stdin(result_size_bits) ==
    CASE result_size_bits >= 64 -> 64
      [] result_size_bits \in 32..63 -> 32
      [] result_size_bits \in 16..31 -> 16
      [] result_size_bits < 16 -> 8

unit_bits(g) == stdin(uniform_bits(g.range))
=============================================================================
