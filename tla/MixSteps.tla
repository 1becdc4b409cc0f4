-------------------------------- MODULE MixSteps --------------------------------
(* The steps that the mixers over a counter are made of (nasam.hpp,           *)
(* murmurhash.hpp, ttwanghash64.hpp, ...), and next() of their PRNGs.         *)
(*                                                                            *)
(* A PRNG is a record: the bits of its words, the increment of its counter,   *)
(* whether the counter moves before it is mixed, and the steps of the mixture.*)
(* W may be fewer than the bits: constants keep their low bits, and shifts    *)
(* and rotations their proportion of the width, rounded up.                   *)
EXTENDS Words

Scaled(k, bits) == (k * W + bits - 1) \div bits

(* The steps.  j and k are distances, c a constant.                           *)
xorshift(k)     == [op |-> "x ^= x >> k", k |-> k]
xorshifts(j, k) == [op |-> "x ^= (x >> j) ^ (x >> k)", j |-> j, k |-> k]
xornot(j, k)    == [op |-> "x ^= (~x >> j) ^ (x >> k)", j |-> j, k |-> k]
xorrotr(j, k)   == [op |-> "x ^= rotr(x, j) ^ rotr(x, k)", j |-> j, k |-> k]
addshift(k)     == [op |-> "x += x << k", k |-> k]
addshifts(j, k) == [op |-> "x += (x << j) + (x << k)", j |-> j, k |-> k]
notplus(k)      == [op |-> "x = ~x + (x << k)", k |-> k]
add(c)          == [op |-> "x += c", c |-> c]
xor(c)          == [op |-> "x ^= c", c |-> c]
mul(c)          == [op |-> "x *= c", c |-> c]
shift(k)        == [op |-> "x >>= k", k |-> k]

XorShift_Or(x, k) == x \cup Shr(x, k)       \* mutant: x |= x >> k

XorShift(x, k) == Xor(x, Shr(x, k))

Apply(x, step, bits) ==
    LET j == Scaled(step.j, bits)
        k == Scaled(step.k, bits)
    IN  CASE step.op = "x ^= x >> k"                  -> XorShift(x, k)
          [] step.op = "x ^= (x >> j) ^ (x >> k)"     -> Xor(x, Xor(Shr(x, j), Shr(x, k)))
          [] step.op = "x ^= (~x >> j) ^ (x >> k)"    -> Xor(x, Xor(Shr(Not(x), j), Shr(x, k)))
          [] step.op = "x ^= rotr(x, j) ^ rotr(x, k)" -> Xor(x, Xor(Rotr(x, j), Rotr(x, k)))
          [] step.op = "x += x << k"                  -> Add(x, Shl(x, k))
          [] step.op = "x += (x << j) + (x << k)"     -> Add(x, Add(Shl(x, j), Shl(x, k)))
          [] step.op = "x = ~x + (x << k)"            -> Add(Not(x), Shl(x, k))
          [] step.op = "x += c"                       -> Add(x, step.c)
          [] step.op = "x ^= c"                       -> Xor(x, step.c)
          [] step.op = "x *= c"                       -> Mul(x, step.c)
          [] step.op = "x >>= k"                      -> Shr(x, k)

Mixed(g, x) ==
    LET y[n \in 0..Len(g.mix)] == IF n = 0 THEN x ELSE Apply(y[n - 1], g.mix[n], g.bits)
    IN  y[Len(g.mix)]

(* next(): s is the counter.                                                  *)
next(g, s) ==
    LET advanced == Add(s, g.inc)
    IN  [s |-> advanced, result |-> Mixed(g, IF g.first = "add" THEN advanced ELSE s)]

-----------------------------------------------------------------------------
(* "Must be odd" of the constants, and what the code does not say of the      *)
(* distances: the steps that can be undone.  The last step of splitmix32      *)
(* cannot.                                                                    *)
Reversible(step) ==
    \/ /\ step.op \in {"x ^= x >> k", "x += x << k", "x = ~x + (x << k)"}
       /\ step.k \in Nat \ {0}
    \/ /\ step.op \in {"x ^= (x >> j) ^ (x >> k)", "x ^= (~x >> j) ^ (x >> k)",
                       "x += (x << j) + (x << k)"}
       /\ step.j \in Nat \ {0} /\ step.k \in Nat \ {0}
    \/ /\ step.op = "x ^= rotr(x, j) ^ rotr(x, k)"
       /\ step.j \in Nat /\ step.k \in Nat
    \/ /\ step.op \in {"x += c", "x ^= c", "x *= c"}
       /\ step.c \in Word
       /\ step.op = "x *= c" => 0 \in step.c
=============================================================================
