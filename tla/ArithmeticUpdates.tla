--------------------------- MODULE ArithmeticUpdates ---------------------------
(* What next() does to the state of the PRNGs that add, multiply, rotate and  *)
(* shift, with their constants and distances as parameters (sfc.hpp,          *)
(* stc_crand.hpp, biski64.hpp, jsf.hpp, gjrand.hpp, romu.hpp, lcg.hpp,        *)
(* pcg.hpp, lehmer64.hpp, klimov_shamir.hpp, lxm.hpp, shioi.hpp, seiran.hpp,  *)
(* xsm.hpp).  s is the array of the words, indexed from 0, except in lcg,     *)
(* lehmer and KlimovShamir, whose state is one number.                        *)
EXTENDS Words

One == {0}      \* 1

(* sfc and stc_crand differ in their results and in the counter that is s[3]. *)
SmallFast(s, k, r, result, counter) ==
    [s EXCEPT ![0] = Xor(s[1], Shr(s[1], k)),
              ![1] = Add(s[2], Shl(s[2], 3)),
              ![2] = Add(Rotl(@, r), result),
              ![3] = counter]

sfc_result(s) == Add(Add(s[0], s[1]), s[3])
Sfc(s, k, r) == SmallFast(s, k, r, sfc_result(s), Add(s[3], One))

stc_crand_result(s, weyl) == Add(Xor(s[0], weyl), s[1])
StcCrand(s, inc, k, r) ==
    LET weyl == Add(s[3], inc) IN SmallFast(s, k, r, stc_crand_result(s, weyl), weyl)

Biski(s, inc, r1, r2) ==
    [s EXCEPT ![0] = Add(@, inc),
              ![1] = Add(Rotl(@, r1), Rotl(s[2], r2)),
              ![2] = Xor(s[0], s[1])]

(* The 2-rotate version of jsf does not rotate s[3].                          *)
Jsf(s, r1, r2, r3) ==
    LET e  == Sub(Add(s[0], One), Rotl(s[1], r1))
        s0 == Xor(s[1], Rotl(s[2], r2))
    IN  [s EXCEPT ![0] = s0, ![1] = Add(s[2], Rotl(s[3], r3)),
                  ![2] = Add(s[3], e), ![3] = Add(e, s0)]

Gjrand(s, inc, r1, r2, r3) ==
    LET b  == Add(s[1], s[2])
        d  == Add(s[3], inc)
        a  == Add(Rotl(s[0], r1), b)
        c  == Rotl(Xor(s[2], b), r2)
        a2 == Add(a, c)
    IN  [s EXCEPT ![0] = a2, ![1] = Add(Rotl(Xor(b, a), r3), d), ![2] = Add(c, a2), ![3] = d]

-----------------------------------------------------------------------------
(* States of one number, the linear congruential ones first.                  *)

lcg(s, m, c) == Add(Mul(s, m), c)
lehmer(s, m) == Mul(Add(s, One), m)

(* klimov_shamir: a quadratic one.                                            *)
KlimovShamir(s, c) == Add(s, Mul(s, s) \cup c)

-----------------------------------------------------------------------------
(* romu: the "+ 1" of a-mult keeps a state of zeros from staying.             *)

Times1(m, x) == lcg(x, m, One)

RomuQuad(s, m, r1, r2) ==
    [s EXCEPT ![0] = Times1(m, s[3]), ![1] = Add(s[3], Rotl(s[0], r1)),
              ![2] = Sub(@, s[1]), ![3] = Rotl(Add(s[2], s[0]), r2)]
RomuTrio(s, m, r1, r2) ==
    [s EXCEPT ![0] = Times1(m, s[2]), ![1] = Rotl(Sub(@, s[0]), r1), ![2] = Rotl(Sub(@, s[1]), r2)]
RomuDuo(s, m, r1, r2) ==
    [s EXCEPT ![0] = Times1(m, s[1]), ![1] = Sub(Add(Rotl(@, r1), Rotl(@, r2)), s[0])]
RomuDuoJr(s, m, r) ==
    [s EXCEPT ![0] = Times1(m, s[1]), ![1] = Rotl(Sub(@, s[0]), r)]

-----------------------------------------------------------------------------
(* lxm: s[0] is the increment of s[1]; s[2] and s[3] are a xoroshiro.         *)
Lxm(s, m, a, b, c) ==
    LET q == Xor(s[3], s[2])
    IN  [s EXCEPT ![1] = lcg(@, m, s[0]), ![2] = Xor(Rotl(@, a), Xor(q, Shl(q, b))),
                  ![3] = Rotl(q, c)]

(* shioi and seiran: both words move by a constant first.                     *)
Moved(s, c, d) == [s EXCEPT ![0] = Add(@, c), ![1] = Add(@, d)]

Shioi(s)  == [s EXCEPT ![0] = s[1], ![1] = Xor(Xor(Shl(s[0], 2), Sar(s[0], 19)), s[1])]
Seiran(s) == [s EXCEPT ![0] = Xor(s[0], Rotl(s[1], 29)), ![1] = Xor(s[0], Shl(s[1], 9))]

(* xsm: s[0] and s[1] are the halves of a number that moves by a constant and *)
(* by its low half; the comparison finds the carry.                           *)

xsm_step_NoCarry(s, p1, p2) ==      \* mutant: the carry is lost
    [s EXCEPT ![0] = Add(@, p1), ![1] = Add(@, Add(s[0], p2))]

xsm_step(s, p1, p2) ==
    LET low   == Add(s[0], p1)
        carry == IF Less(low, p1) THEN One ELSE {}
    IN  [s EXCEPT ![0] = low, ![1] = Add(@, Add(Add(s[0], p2), carry))]
=============================================================================
