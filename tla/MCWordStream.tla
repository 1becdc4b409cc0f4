------------------------------ MODULE MCWordStream ------------------------------
(* PRNGs and values for WordStream: the kinds of PRNG that prng.hpp registers,*)
(* and every small range.                                                     *)
EXTENDS WordStream

(* aes_*, sha*; the 64-bit PRNGs; the 32-bit ones; then the engines of        *)
(* <random>, whose result_type has 64 bits: mt19937 and philox4x32, ranlux24, *)
(* ranlux48, and minstd_rand, which has 2^31 - 2 values.                      *)
Registered ==
    {[result_bits |-> 128, range |-> 0..127],
     [result_bits |-> 64, range |-> 0..63],
     [result_bits |-> 32, range |-> 0..31],
     [result_bits |-> 64, range |-> 0..31],
     [result_bits |-> 64, range |-> 0..23],
     [result_bits |-> 64, range |-> 0..47],
     [result_bits |-> 64, range |-> {0} \cup 2..30]}

Small ==
    [result_bits : {8}, range : SUBSET (0..7) \ {{}}]
    \cup [result_bits : {16}, range : SUBSET (0..8) \ {{}}]

AllGenerators == Registered \cup Small

(* The order of the numbers.                                                  *)
AtMost(v, r) == v = r \/ Max(SymDiff(v, r)) \in r

(* Zero, the largest value, and those with a single bit at an end of a byte,  *)
(* a word or a half.                                                          *)
SparseValues(g) ==
    {v \in {{}, g.range} \cup {{b} : b \in {0, 7, 8, 15, 16, 31, 32, 63, 64, 127}} :
        AtMost(v, g.range)}

Value(r) == MapThenSumSet(LAMBDA i : 2^i, r)

ASSUME CountsAreNumbers ==
    \A g \in Small : Cardinality(UpTo(g.range)) = Value(g.range) + 1
================================================================================
