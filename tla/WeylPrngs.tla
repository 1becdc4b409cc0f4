------------------------------- MODULE WeylPrngs -------------------------------
(* The PRNGs that are, or contain, a sequence whose period is known to be all *)
(* of 2^n: the linear congruential ones (lcg.hpp, mcg.hpp, lehmer64.hpp,      *)
(* pcg.hpp, lxm.hpp), xsm's counter of two words (xsm.hpp), and the squares   *)
(* that a Weyl sequence keeps going (msws.hpp).  Objects are as in            *)
(* LinearPrngs.                                                               *)
EXTENDS ArithmeticUpdates

LOCAL INSTANCE SequencesExt

After(o, s, result) == [object |-> [o EXCEPT !.s = s], result |-> result]

-----------------------------------------------------------------------------
(* States of one number, of 64 or 128 bits.  Only the low W bits are kept:    *)
(* they do not depend on the others, which are all that an output shows.      *)

lcg32(s)  == LET m == Literal(<<\hc580, \hcadd, \h754f, \h7336, \hd2ea, \ha27d>>) IN lcg(s, m, m)
lcg64(s)  == LET m == Literal(<<\h2d99, \h7879, \h26d4, \h6932, \ha4c1, \hf326, \h80f7, \h0c55>>) IN lcg(s, m, m)
mcg128(s) == LET m == Literal(<<\h45a3, \h1efc, \h5a35, \hd971, \h261f, \hd040, \h7a96, \h8add>>) IN lcg(s, m, m)

lehmer64(s) == lehmer(s, Literal(<<\hda94, \h2042, \he4dd, \h58b5>>))

pcg_const64 ==
    <<Literal(<<\h5851, \hf42d, \h4c95, \h7f2d>>), Literal(<<\h1405, \h7b7e, \hf767, \h814f>>),
      Literal(<<\hda94, \h2042, \he4dd, \h58b5>>)>>
pcg_const128 ==
    <<Literal(<<\h2360, \hed05, \h1fc6, \h5da4, \h4385, \hdf64, \h9fcc, \hf645>>),
      Literal(<<\h5851, \hf42d, \h4c95, \h7f2d, \h1405, \h7b7e, \hf767, \h814f>>)>>

pcg32(s)      == lcg(s, pcg_const64[1], pcg_const64[2])
pcg32_fast(s) == lcg(s, pcg_const64[1], pcg_const64[2])
pcg64(s)      == lcg(s, pcg_const128[1], pcg_const128[2])
pcg64dxsm(s)  == lcg(s, pcg_const64[3], pcg_const128[2])

-----------------------------------------------------------------------------
(* xsm                                                                        *)

(* x ^ rotl(x + c, r)                                                         *)
XorRot(x, c, r) == Xor(x, Rotl(Add(x, c), r))

xsm32_p1 == Literal(<<\h9e37, \h79b1>>)
xsm32_p2 == Literal(<<\h85eb, \hca77>>)
xsm64_p1 == Literal(<<\h9e37, \h79b1, \h85eb, \hca87>>)
xsm64_p2 == Literal(<<\hc2b2, \hae3d, \h27d4, \heb4f>>)

xsm32(o) ==
    LET s  == xsm_step(o.s, xsm32_p1, xsm32_p2)
        a  == XorRot(XorRot(o.s[1], o.s[0], 9), xsm32_p2, 19)
        b  == Mul(a, Literal(<<\hd251, \hcf2d>>))
        c  == Mul(XorRot(b, s[1], 16), Literal(<<\h2995, \h29b5>>))
    IN  After(o, s, Xor(c, Shr(c, 16)))

xsm64(o) ==
    LET s  == xsm_step(o.s, xsm64_p1, xsm64_p2)
        m  == Literal(<<\ha3ec, \h6476, \h5935, \h9acd>>)
        a  == XorRot(XorRot(o.s[1], o.s[0], 16), xsm64_p2, 40)
        c  == Mul(XorRot(Mul(a, m), s[1], 32), m)
    IN  After(o, s, Xor(c, Shr(c, 32)))

-----------------------------------------------------------------------------
(* lxm                                                                        *)

GOLDEN_RATIO_64 == Literal(<<\h9e37, \h79b9, \h7f4a, \h7c15>>)

(* x ^= x >> ks[1]; x *= ms[1]; x ^= x >> ks[2]; ...                          *)
Mix(x, ks, ms) ==
    LET xorshift(y, k) == Xor(y, Shr(y, k))
    IN  FoldLeft(LAMBDA y, i : xorshift(Mul(y, ms[i]), ks[i + 1]), xorshift(x, ks[1]),
                 [i \in 1..Len(ms) |-> i])

mix_stafford13(x) ==
    Mix(x, <<30, 27, 31>>, <<Literal(<<\hbf58, \h476d, \h1ce4, \he5b9>>),
                             Literal(<<\h94d0, \h49bb, \h1331, \h11eb>>)>>)
mix_lea(x) ==
    LET m == Literal(<<\hdaba, \h0b6e, \hb093, \h22e3>>) IN Mix(x, <<32, 32, 32>>, <<m, m>>)

lxm_init_NoRepair(s) == [s EXCEPT ![0] = @ \cup One]    \* mutant: s[2], s[3] stay 0

(* The increment is made odd, and the xoroshiro part is kept from zero.       *)
lxm_init(s) ==
    LET odd == [s EXCEPT ![0] = @ \cup One]
        v   == Add(s[1], GOLDEN_RATIO_64)
    IN  IF s[2] = {} /\ s[3] = {}
        THEN [odd EXCEPT ![2] = mix_stafford13(v), ![3] = mix_stafford13(Add(v, GOLDEN_RATIO_64))]
        ELSE odd

lxm(o) ==
    LET s == o.s
    IN  After(o, Lxm(s, Literal(<<\hd134, \h2543, \hde82, \hef95>>), 24, 16, 37),
              mix_lea(Add(s[1], s[2])))

-----------------------------------------------------------------------------
(* msws                                                                       *)

(* The square plus the Weyl sequence, before its halves are exchanged.        *)
Squared(x, weyl) == Add(Mul(x, x), weyl)

inc  == Literal(<<\hb5ad, \h4ece, \hda1c, \he2a9>>)
inc2 == Literal(<<\h278c, \h5a4d, \h8419, \hfe6b>>)

msws32(o) ==
    LET s    == o.s
        weyl == Add(s[1], inc)
        x    == Rotr(Squared(s[0], weyl), 32)
    IN  After(o, [s EXCEPT ![0] = x, ![1] = weyl], x \cap 0..31)

msws64(o) ==
    LET s  == o.s
        w0 == Add(s[1], inc)
        w1 == Add(s[3], inc2)
        x  == Squared(s[0], w0)
        y  == Rotr(Squared(s[2], w1), 32)
    IN  After(o, [s EXCEPT ![0] = Rotr(x, 32), ![1] = w0, ![2] = y, ![3] = w1], Xor(x, y))
=============================================================================
