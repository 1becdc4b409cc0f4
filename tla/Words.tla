--------------------------------- MODULE Words ---------------------------------
(* The unsigned integers of the PRNGs.  A word is the set of the positions of *)
(* its bits that are 1, so that exclusive or is symmetric difference and a    *)
(* word of any width, 64 bits included, is a small value.                     *)
EXTENDS Naturals, Sequences, FiniteSetsExt

CONSTANT W      \* bits of a word

ASSUME WAssumption == W \in Nat \ {0}

Bits == 0..(W - 1)
Word == SUBSET Bits

Xor(x, y) == SymDiff(x, y)

Shl(x, k)  == {i \in Bits : i >= k /\ i - k \in x}
Shr(x, k)  == {i \in Bits : i + k \in x}
Rotl(x, k) == {(i + k) % W : i \in x}
Rotr(x, k) == {i \in Bits : (i + k) % W \in x}
Not(x)     == Bits \ x

(* The shift of a signed integer.                                             *)
Sar(x, k) == Shr(x, k) \cup {i \in Bits : i + k >= W /\ W - 1 \in x}

(* The carry into bit i of x + y: it starts at a bit that both have, and every*)
(* bit between passes it on.                                                  *)
CarryInto(i, x, y) ==
    \E j \in x \cap y : j < i /\ (j + 1)..(i - 1) \subseteq x \cup y

(* x + y, modulo 2^W: a bit is 1 when one or all of the two bits and the carry*)
(* are.                                                                       *)
Add(x, y) == {i \in Bits : (i \in x <=> i \in y) <=> CarryInto(i, x, y)}

(* x - y, modulo 2^W.                                                         *)
Sub(x, y) == Not(Add(Not(x), y))

Less(x, y) == \E i \in y \ x : \A k \in Bits : k > i => (k \in x <=> k \in y)

(* x * y, modulo 2^W: the sum of x shifted to each bit of y.                  *)
Mul(x, y) ==
    LET sum[n \in 0..W] == IF n = 0 THEN {}
                           ELSE IF n - 1 \in y THEN Add(Shl(x, n - 1), sum[n - 1]) ELSE sum[n - 1]
    IN  sum[W]

(* The word of a number below 32, and of one given by its hexadecimal digits, *)
(* least significant first.                                                   *)
Number(n) == {i \in Bits : i < 5 /\ (n \div 2^i) % 2 = 1}
Hex(digits) == {i \in Bits : i \div 4 < Len(digits) /\ i % 4 \in Number(digits[1 + i \div 4])}

(* A literal of the source, cut into pieces of 16 bits and, when it is wider  *)
(* than a word, to its low bits.                                              *)
Literal(pieces) ==
    {i \in Bits : i \div 16 < Len(pieces)
                  /\ (pieces[Len(pieces) - i \div 16] \div 2^(i % 16)) % 2 = 1}
=============================================================================
