------------------------------ MODULE LinearPrngs ------------------------------
(* The xoshiro and xoroshiro PRNGs (xoshiro.hpp, xoroshiro.hpp,               *)
(* xoroshiro128aox.hpp): what next() does to the state and what it returns.   *)
(*                                                                            *)
(* A PRNG object is a record: its array s of words, indexed from 0, and the   *)
(* position p in it, which only the PRNGs of 1024 bits have; in the others it *)
(* is always 0.                                                               *)
EXTENDS Words

-----------------------------------------------------------------------------
(* The state updates, with their shifts and rotations as parameters           *)

(* Four words: xoshiro128 and xoshiro256.                                     *)
Xoshiro4(s, k, r) ==
    LET t  == Shl(s[1], k)
        s2 == Xor(s[2], s[0])
        s3 == Xor(s[3], s[1])
    IN  [s EXCEPT ![0] = Xor(@, s3), ![1] = Xor(@, s2), ![2] = Xor(s2, t), ![3] = Rotl(s3, r)]

(* Eight words: xoshiro512.                                                   *)
Xoshiro8(s, k, r) ==
    LET t  == Shl(s[1], k)
        s2 == Xor(s[2], s[0])
        s5 == Xor(s[5], s[1])
        s7 == Xor(s[7], s[3])
    IN  [s EXCEPT ![0] = Xor(@, s[6]), ![1] = Xor(@, s2), ![2] = s2, ![3] = Xor(@, s[4]),
                  ![4] = Xor(@, s5), ![5] = s5, ![6] = Xor(Xor(@, s7), t), ![7] = Rotl(s7, r)]

(* What becomes of the two words that a xoroshiro PRNG updates: the pair      *)
(* (s0, s1) is replaced by (Low, High).                                       *)
Low_NoRotation(s0, s1, a, b) ==      \* mutant: the term rotl(s0, a) is left out
    LET x == Xor(s1, s0) IN Xor(x, Shl(x, b))

Low(s0, s1, a, b) == LET x == Xor(s1, s0) IN Xor(Xor(Rotl(s0, a), x), Shl(x, b))
High(s0, s1, c)   == Rotl(Xor(s1, s0), c)

Xoroshiro(s, a, b, c) == [s EXCEPT ![0] = Low(s[0], s[1], a, b), ![1] = High(s[0], s[1], c)]

Ring_StaleNeighbour(o, n, a, b, c) ==     \* mutant: s[p] is computed from the new s[q]
    LET q == o.p
        p == (q + 1) % n
        low == Low(o.s[p], o.s[q], a, b)
    IN  [s |-> [o.s EXCEPT ![q] = low, ![p] = High(o.s[p], low, c)], p |-> p]

(* The PRNGs of 1024 bits update two neighbours in a ring of n words, and     *)
(* their position moves by one.                                               *)
Ring(o, n, a, b, c) ==
    LET q == o.p
        p == (q + 1) % n
    IN  [s |-> [o.s EXCEPT ![q] = Low(o.s[p], o.s[q], a, b), ![p] = High(o.s[p], o.s[q], c)],
         p |-> p]

-----------------------------------------------------------------------------
(* The results                                                                *)

Times(x, n) == Mul(x, Number(n))
PlusPlus(x, y, r) == Add(Rotl(Add(x, y), r), x)
StarStar(x, r) == Times(Rotl(Times(x, 5), r), 9)

(* s[0] and s[1], combined by and, or and exclusive or.                       *)
Aox(s0, s1) == Xor(Xor(s0, s1), Rotl(s0 \cap s1, 1) \cup Rotl(s0 \cap s1, 2))

-----------------------------------------------------------------------------
(* next() of each PRNG: the object after it and the result.                   *)

After(o, s, result) == [object |-> [o EXCEPT !.s = s], result |-> result]

xoshiro128plusplus(o) == After(o, Xoshiro4(o.s, 9, 11), PlusPlus(o.s[0], o.s[3], 7))
xoshiro128starstar(o) == After(o, Xoshiro4(o.s, 9, 11), StarStar(o.s[1], 7))
xoshiro256plusplus(o) == After(o, Xoshiro4(o.s, 17, 45), PlusPlus(o.s[0], o.s[3], 23))
xoshiro256starstar(o) == After(o, Xoshiro4(o.s, 17, 45), StarStar(o.s[1], 7))
xoshiro512plusplus(o) == After(o, Xoshiro8(o.s, 11, 21), PlusPlus(o.s[2], o.s[0], 17))
xoshiro512starstar(o) == After(o, Xoshiro8(o.s, 11, 21), StarStar(o.s[1], 7))

xoroshiro64starstar(o) ==
    After(o, Xoroshiro(o.s, 26, 9, 13),
          Times(Rotl(Mul(o.s[0], Hex(<<11, 11, 9, 7, 7, 3, 14, 9>>)), 5), 5))
xoroshiro128plusplus(o) == After(o, Xoroshiro(o.s, 49, 21, 28), PlusPlus(o.s[0], o.s[1], 17))
xoroshiro128starstar(o) == After(o, Xoroshiro(o.s, 24, 16, 37), StarStar(o.s[0], 7))
xoroshiro128aox(o) == After(o, Xoroshiro(o.s, 55, 14, 36), Aox(o.s[0], o.s[1]))

xoroshiro1024(o, result) == [object |-> Ring(o, 16, 25, 27, 36), result |-> result]
xoroshiro1024plusplus(o) == xoroshiro1024(o, PlusPlus(o.s[o.p], o.s[(o.p + 1) % 16], 23))
xoroshiro1024starstar(o) == xoroshiro1024(o, StarStar(o.s[(o.p + 1) % 16], 7))
=============================================================================
