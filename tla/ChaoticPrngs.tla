------------------------------ MODULE ChaoticPrngs ------------------------------
(* next() of the PRNGs that mix addition, rotation and exclusive or (sfc.hpp, *)
(* biski64.hpp, klimov_shamir.hpp, romu.hpp, jsf.hpp, gjrand.hpp, ...).       *)
(* Objects are as in LinearPrngs; a state that is one integer is an array of  *)
(* one word.                                                                  *)
EXTENDS ArithmeticUpdates

After(o, s, result) == [object |-> [o EXCEPT !.s = s], result |-> result]

sfc(o, k, r) == After(o, Sfc(o.s, k, r), sfc_result(o.s))

sfc32(o) == sfc(o, 9, 21)
sfc64(o) == sfc(o, 11, 24)

biski64(o) == After(o, Biski(o.s, Hex([d \in 1..16 |-> 9]), 16, 40), Add(o.s[1], o.s[2]))

klimov_shamir_32(o) ==
    LET s == KlimovShamir(o.s[0], Number(5))
    IN  After(o, [o.s EXCEPT ![0] = s], Shr(s, 32))

-----------------------------------------------------------------------------
(* PRNGs without a warm-up: init does nothing, so that a zero seed is their   *)
(* first state.                                                               *)

M64 == Literal(<<\hd383, \h3e80, \h4f4c, \h574b>>)
M32 == Literal(<<\hc61d, \h672b>>)

romu_quad(o)   == After(o, RomuQuad(o.s, M64, 52, 19), o.s[1])
romu_quad32(o) == After(o, RomuQuad(o.s, M32, 26, 9), o.s[1])
romu_trio(o)   == After(o, RomuTrio(o.s, M64, 12, 44), o.s[0])
romu_trio32(o) == After(o, RomuTrio(o.s, M32, 6, 22), o.s[0])
romu_duo(o)    == After(o, RomuDuo(o.s, M64, 36, 15), o.s[0])
romu_duo_jr(o) == After(o, RomuDuoJr(o.s, M64, 27), o.s[0])

jsf(o, r1, r2, r3) == LET s == Jsf(o.s, r1, r2, r3) IN After(o, s, s[3])

jsf32_2(o) == jsf(o, 27, 17, 0)
jsf32_3(o) == jsf(o, 23, 16, 11)
jsf64(o)   == jsf(o, 7, 13, 37)

GOLDEN_RATIO_32 == Literal(<<\h9e37, \h79b9>>)
GOLDEN_RATIO_64 == Literal(<<\h9e37, \h79b9, \h7f4a, \h7c15>>)

stc_crand(o, inc, k, r) ==
    LET s == StcCrand(o.s, inc, k, r) IN After(o, s, stc_crand_result(o.s, s[3]))

stc_crand32(o) == stc_crand(o, GOLDEN_RATIO_32, 9, W - 11)      \* rotr by 11
stc_crand64(o) == stc_crand(o, GOLDEN_RATIO_64, 11, 24)

gjrand(o) ==
    LET s == Gjrand(o.s, Literal(<<\h55aa, \h96a5>>), 32, 23, 19) IN After(o, s, s[0])

wyp0 == Literal(<<\h2d35, \h8dcc, \haa6c, \h78a5>>)
wyp1 == Literal(<<\h8bb8, \h4b93, \h962e, \hacc9>>)

shioi(o) ==
    LET s == Moved(o.s, wyp0, wyp1)
    IN  After(o, Shioi(s),
              Add(Rotl(Mul(s[0], Literal(<<\hd2b7, \h4407, \hb1ce, \h6e93>>)), 29), s[1]))

seiran(o) ==
    LET s == Moved(o.s, wyp0, wyp1)
    IN  After(o, Seiran(s), Add(Rotl(Mul(Add(s[0], s[1]), Number(9)), 29), s[0]))
=============================================================================
