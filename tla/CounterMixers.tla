----------------------------- MODULE CounterMixers -----------------------------
(* The PRNGs that advance a counter and return a mixture of it, for mixers    *)
(* that are one-to-one, or half of such a mixture (degski.hpp, murmurhash.hpp, *)
(* nasam.hpp, moremur.hpp, staffordMix13.hpp, xxh.hpp, splitmix.hpp, ...).    *)
EXTENDS MixSteps

One == Number(1)

GOLDEN_RATIO_64 == Literal(<<\h9e37, \h79b9, \h7f4a, \h7c15>>)
wyp0            == Literal(<<\h2d35, \h8dcc, \haa6c, \h78a5>>)
XXH_PRIME32_1   == Literal(<<\h9e37, \h79b1>>)
XXH_PRIME32_2   == Literal(<<\h85eb, \hca77>>)
XXH_PRIME32_3   == Literal(<<\hc2b2, \hae3d>>)
XXH_PRIME64_1   == Literal(<<\h9e37, \h79b1, \h85eb, \hca87>>)
XXH_PRIME64_2   == Literal(<<\hc2b2, \hae3d, \h27d4, \heb4f>>)
XXH_PRIME64_3   == Literal(<<\h1656, \h67b1, \h9e37, \h79f9>>)
PRIME_MX1       == Literal(<<\h1656, \h6791, \h9e37, \h79f9>>)
PRIME_MX2       == Literal(<<\h9fb2, \h1c65, \h1e98, \hdf25>>)

Counter(bits, inc, mix) == [bits |-> bits, inc |-> inc, first |-> "mix", mix |-> mix]

-----------------------------------------------------------------------------
(* Two multiplications between three xorshifts.                               *)

Murmur(bits, inc, k1, c1, k2, c2, k3) ==
    Counter(bits, inc, <<xorshift(k1), mul(c1), xorshift(k2), mul(c2), xorshift(k3)>>)

degski32 ==
    LET m == Literal(<<\h45d, \h9f3b>>) IN Murmur(32, XXH_PRIME32_1, 16, m, 16, m, 16)

degski64 ==
    LET m == Literal(<<\hd6e8, \hfeb8, \h6659, \hfd93>>) IN Murmur(64, XXH_PRIME64_1, 32, m, 32, m, 32)

murmurhash3_32 ==
    Murmur(32, XXH_PRIME32_1, 16, Literal(<<\h85eb, \hca6b>>), 13, Literal(<<\hc2b2, \hae35>>), 16)

murmurhash3 ==
    Murmur(64, XXH_PRIME64_1, 33, Literal(<<\hff51, \hafd7, \hed55, \h8ccd>>),
                              33, Literal(<<\hc4ce, \hb9fe, \h1a85, \hec53>>), 33)

moremur ==
    Murmur(64, GOLDEN_RATIO_64, 27, Literal(<<\h3c79, \hac49, \h2ba7, \hb653>>),
                                33, Literal(<<\h1c69, \hb3f7, \h4ac4, \hae35>>), 27)

Stafford13(inc, k3) ==
    Murmur(64, inc, 30, Literal(<<\hbf58, \h476d, \h1ce4, \he5b9>>),
                    27, Literal(<<\h94d0, \h49bb, \h1331, \h11eb>>), k3)

staffordMix13 == Stafford13(wyp0, 32)

splitmix64 == Stafford13(GOLDEN_RATIO_64, 31)

(* The high half of the mixture.                                              *)
splitmix32 ==
    Counter(64, GOLDEN_RATIO_64,
            <<xorshift(33), mul(Literal(<<\h62a9, \hd9ed, \h7997, \h05f5>>)),
              xorshift(28), mul(Literal(<<\hcb24, \hd0a5, \hc88c, \h35b3>>)), shift(32)>>)

xxh32_avalanche == Murmur(32, XXH_PRIME32_1, 15, XXH_PRIME32_2, 13, XXH_PRIME32_3, 16)

xxh64_avalanche == Murmur(64, XXH_PRIME64_1, 33, XXH_PRIME64_2, 29, XXH_PRIME64_3, 32)

lea64 ==
    LET m == Literal(<<\hdaba, \h0b6e, \hb093, \h22e3>>) IN Murmur(64, GOLDEN_RATIO_64, 32, m, 32, m, 32)

(* Its literals are decimal, 1'111'111'111'111'111'111.                       *)
splitxix33 ==
    LET m == Literal(<<\h0f6b, \h75ab, \h2bc4, \h71c7>>)
    IN  [Murmur(64, m, 33, m, 33, m, 33) EXCEPT !.first = "add"]

-----------------------------------------------------------------------------
(* Other mixtures.                                                            *)

xxh3_avalanche == Counter(64, XXH_PRIME64_1, <<xorshift(37), mul(PRIME_MX1), xorshift(32)>>)

xxh3_rrmxmx ==
    Counter(64, XXH_PRIME64_1,
            <<xorrotr(15, 40), mul(PRIME_MX2), xorshift(35), mul(PRIME_MX2), xorshift(28)>>)

mx3 ==
    LET m == mul(Literal(<<\hbea2, \h25f9, \heb34, \h556d>>))
    IN  Counter(64, One, <<xorshift(32), m, xorshift(29), m, xorshift(32), m, xorshift(29)>>)

rrmxmx ==
    LET m == mul(Literal(<<\h9fb2, \h1c65, \h1e98, \hdf25>>))
    IN  Counter(64, One, <<xorrotr(49, 24), m, xorshift(28), m, xorshift(28)>>)

rrxmrrxmsx_0 ==
    Counter(64, One,
            <<xorrotr(25, 50), mul(Literal(<<\ha24b, \haed4, \h963e, \he407>>)),
              xorrotr(24, 49), mul(Literal(<<\h9fb2, \h1c65, \h1e98, \hdf25>>)), xorshift(28)>>)

(* rotl by 21 is rotr by 43.                                                  *)
ettinger_mixer ==
    Counter(64, One,
            <<xor(Literal(<<\hdb4f, \h0b91, \h75ae, \h2165>>)), mul(Literal(<<\h4823, \ha80b, \h2006, \he21b>>)),
              xorrotr(12, 43), xor(GOLDEN_RATIO_64), mul(Literal(<<\h8138, \h3173>>)), xorshift(28)>>)

ttwanghash64 ==
    Counter(64, wyp0,
            <<notplus(21), xorshift(24), addshifts(3, 8), xorshift(14), addshifts(2, 4),
              xorshift(28), addshift(31)>>)

NasamMix(middle) ==
    <<xorrotr(25, 47), mul(Literal(<<\h9e6c, \h63d0, \h676a, \h9a99>>)),
      middle, mul(Literal(<<\h9e6d, \h62d0, \h6f6a, \h9a9b>>)), xorshifts(23, 51)>>

nasam     == Counter(64, One, NasamMix(xorshifts(23, 51)))
xnasam    == [nasam EXCEPT !.mix = <<xor(GOLDEN_RATIO_64)>> \o @]
xnasamx   == [xnasam EXCEPT !.mix = @ \o <<xor(GOLDEN_RATIO_64)>>]
nasam_not == Counter(64, One, NasamMix(xornot(23, 51)))

(* It has no counter: the mixture is the next state.                          *)
rrma2xsm2xs(s) ==
    Mixed([bits |-> 64,
           mix |-> <<xorrotr(25, 47), mul(Literal(<<\h9e6c, \h63d0, \h676a, \h9a99>>)), add(GOLDEN_RATIO_64),
                     xorshifts(23, 51), mul(Literal(<<\h9e6d, \h62d0, \h6f6a, \h9a9b>>)),
                     xorshifts(23, 51)>>], s)

(* By name.                                                                   *)
CounterMixer ==
    [degski32 |-> degski32, degski64 |-> degski64,
     murmurhash3_32 |-> murmurhash3_32, murmurhash3 |-> murmurhash3,
     moremur |-> moremur, staffordMix13 |-> staffordMix13,
     splitmix64 |-> splitmix64, splitmix32 |-> splitmix32, xxh32_avalanche |-> xxh32_avalanche,
     xxh64_avalanche |-> xxh64_avalanche, xxh3_avalanche |-> xxh3_avalanche,
     xxh3_rrmxmx |-> xxh3_rrmxmx, lea64 |-> lea64, splitxix33 |-> splitxix33,
     mx3 |-> mx3, rrmxmx |-> rrmxmx, rrxmrrxmsx_0 |-> rrxmrrxmsx_0,
     ettinger_mixer |-> ettinger_mixer, ttwanghash64 |-> ttwanghash64,
     nasam |-> nasam, xnasam |-> xnasam, xnasamx |-> xnasamx,
     nasam_not |-> nasam_not]
=============================================================================
