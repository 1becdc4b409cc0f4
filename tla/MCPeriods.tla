------------------------------- MODULE MCPeriods -------------------------------
(* The PRNGs without a warm-up, by name.  Those whose period is followed have *)
(* short words: a counter with a mixer ("mixer"), the low bits of a linear    *)
(* congruential state ("lcg"), the two words of xsm ("xsm"), counters that    *)
(* are multiplied ("product") and blocks of counters ("block").  The others   *)
(* have their real width ("real").                                            *)
EXTENDS Periods, TLC, FiniteSetsExt

M8  == INSTANCE CounterMixers WITH W <- 8
M64 == INSTANCE CounterMixers WITH W <- 64
W4  == INSTANCE WeylPrngs WITH W <- 4
W8  == INSTANCE WeylPrngs WITH W <- 8
W32 == INSTANCE WeylPrngs WITH W <- 32
W64 == INSTANCE WeylPrngs WITH W <- 64
C32 == INSTANCE ChaoticPrngs WITH W <- 32
C64 == INSTANCE ChaoticPrngs WITH W <- 64
P8  == INSTANCE ProductPrngs WITH W <- 8

N4 == INSTANCE Words WITH W <- 4

(* Words add, multiply and shift as the numbers that they stand for.          *)
Value(x) == MapThenSumSet(LAMBDA i : 2^i, x)

ASSUME WordsAreNumbers ==
    \A x, y \in N4!Word :
        /\ Value(N4!Add(x, y)) = (Value(x) + Value(y)) % 16
        /\ Value(N4!Sub(x, y)) = (Value(x) + 16 - Value(y)) % 16
        /\ N4!Less(x, y) <=> Value(x) < Value(y)
        /\ Value(N4!Mul(x, y)) = (Value(x) * Value(y)) % 16
        /\ \A k \in 0..3 :
              /\ Value(N4!Shl(x, k)) = (Value(x) * 2^k) % 16
              /\ Value(N4!Shr(x, k)) = Value(x) \div 2^k
              /\ N4!Rotr(N4!Rotl(x, k), k) = x
              /\ Value(N4!Rotl(x, k)) = ((Value(x) * 2^k) % 16) + (Value(x) \div 2^(4 - k))

(* The product of two words is that of their numbers, whole.                  *)
P4 == INSTANCE ProductPrngs WITH W <- 4

ASSUME ProductsAreNumbers ==
    \A x, y \in N4!Word :
        16 * Value(P4!hi(P4!mul(x, y))) + Value(P4!lo(P4!mul(x, y))) = Value(x) * Value(y)

(* Increments and multipliers are odd, at every width; every step of a mixer  *)
(* can be undone, but for the last one of splitmix32.                         *)
ASSUME MixersAreReversible ==
    \A name \in DOMAIN M8!CounterMixer :
        \A low \in {M8!CounterMixer[name]}, full \in {M64!CounterMixer[name]} :
            /\ 0 \in low.inc \cap full.inc
            /\ \A n \in DOMAIN low.mix :
                  \/ M8!Reversible(low.mix[n]) /\ M64!Reversible(full.mix[n])
                  \/ name = "splitmix32" /\ n = 5

(* Stand-ins for the instructions, on lanes of four bits.  As in AES, a lane  *)
(* is mixed like the other one: a round does not tell the lanes apart.        *)
Nonlinear ==
    LET substitute == <<12, 5, 6, 11, 9, 0, 10, 13, 3, 14, 15, 8, 4, 7, 1, 2>>
    IN  [x \in N4!Word |-> N4!Number(substitute[1 + Value(x)])]
Mixture(a)   == LET d == N4!Rotl(N4!Xor(a[1], a[2]), 1) IN <<N4!Xor(a[1], d), N4!Xor(a[2], d)>>
B4 == INSTANCE BlockPrngs WITH
        W <- 4, SubBytesShiftRows <- LAMBDA a : <<Nonlinear[a[1]], Nonlinear[a[2]]>>,
        MixColumns <- Mixture,
        ShaRounds <- LAMBDA instruction, a, b, k : <<Nonlinear[N4!Add(a[1], b[2])], N4!Xor(a[2], b[1])>>

Names(kind) ==
    CASE kind = "mixer"   -> DOMAIN M8!CounterMixer
      [] kind = "lcg"     -> {"lcg32", "lcg64", "mcg128", "lehmer64",
                              "pcg32", "pcg32_fast", "pcg64", "pcg64dxsm"}
      [] kind = "xsm"     -> {"xsm32", "xsm64"}
      [] kind = "product" -> {"wyrand", "mumx_ctr2", "clmulrand", "mumx_mumx_rrxx_1",
                              "mumx_mumx_x1", "mumx_mumx_x2", "squares32", "squares64"}
      [] kind = "block"   -> {"aes_r1_ctr_128", "aes_r2_ctr_128", "aes_r3_ctr_128",
                              "aes_compress_r2_ctr2_128", "aes_compress_r3_ctr2_128",
                              "sha1_ctr_128", "sha256_ctr_128"}
      [] kind = "real"    -> {"romu_quad", "romu_trio", "romu_duo", "romu_duo_jr", "romu_quad32",
                              "romu_trio32", "jsf32_2", "jsf32_3", "jsf64", "stc_crand32",
                              "stc_crand64", "gjrand", "shioi", "seiran", "xsm32", "xsm64",
                              "lxm", "msws32", "msws64", "rrma2xsm2xs"}

Kinds == {"mixer", "lcg", "xsm", "product", "block", "real"}
MCPrngs  == UNION {{[kind |-> kind, name |-> n] : n \in Names(kind)} : kind \in Kinds}
MCCyclic == {prng \in MCPrngs : prng.kind # "real"}
MCMixers == {prng \in MCPrngs : prng.kind = "mixer"}

aes_ctr == {"aes_r1_ctr_128", "aes_r2_ctr_128", "aes_r3_ctr_128"}

MCPeriod(prng) == IF prng.kind = "block" THEN 16 ELSE 256
MCCopies(prng) == IF prng.name = "splitmix32" THEN 16 ELSE 1

size(prng) ==
    CASE prng.kind \in {"mixer", "lcg"} \/ prng.name = "rrma2xsm2xs" -> 1
      [] prng.kind = "product" -> IF prng.name \in {"mumx_ctr2", "clmulrand"} THEN 2 ELSE 1
      [] prng.name \in {"romu_duo", "romu_duo_jr", "shioi", "seiran", "xsm32", "xsm64", "msws32",
                     "sha1_ctr_128", "sha256_ctr_128"} -> 2
      [] prng.name \in {"romu_trio", "romu_trio32"} -> 3
      [] OTHER -> 4

bits(prng) ==
    CASE prng.kind \in {"mixer", "lcg", "product"} -> 8
      [] prng.kind \in {"xsm", "block"} -> 4
      [] prng.name \in {"romu_quad32", "romu_trio32", "jsf32_2", "jsf32_3", "stc_crand32", "xsm32"} -> 32
      [] OTHER -> 64

Object(words) == [s |-> words, p |-> 0]

(* init                                                                       *)
MCinit(prng, seed) ==
    Object(CASE prng.name = "lxm" -> W64!lxm_init(seed)
             [] prng.name \in aes_ctr -> B4!aes_ctr_init(seed)
             [] OTHER -> seed)

(* next() of a state of one number; no result where it is left out.           *)
Single(x, result) == [object |-> Object([i \in {0} |-> x]), result |-> result]

next_lcg(name, x) ==
    CASE name = "lcg32"      -> W8!lcg32(x)
      [] name = "lcg64"      -> W8!lcg64(x)
      [] name = "mcg128"     -> W8!mcg128(x)
      [] name = "lehmer64"   -> W8!lehmer64(x)
      [] name = "pcg32"      -> W8!pcg32(x)
      [] name = "pcg32_fast" -> W8!pcg32_fast(x)
      [] name = "pcg64"      -> W8!pcg64(x)
      [] name = "pcg64dxsm"  -> W8!pcg64dxsm(x)

next_real(name, o) ==
    CASE name = "romu_quad"   -> C64!romu_quad(o)
      [] name = "romu_trio"   -> C64!romu_trio(o)
      [] name = "romu_duo"    -> C64!romu_duo(o)
      [] name = "romu_duo_jr" -> C64!romu_duo_jr(o)
      [] name = "romu_quad32" -> C32!romu_quad32(o)
      [] name = "romu_trio32" -> C32!romu_trio32(o)
      [] name = "jsf32_2"     -> C32!jsf32_2(o)
      [] name = "jsf32_3"     -> C32!jsf32_3(o)
      [] name = "jsf64"       -> C64!jsf64(o)
      [] name = "stc_crand32" -> C32!stc_crand32(o)
      [] name = "stc_crand64" -> C64!stc_crand64(o)
      [] name = "gjrand"      -> C64!gjrand(o)
      [] name = "shioi"       -> C64!shioi(o)
      [] name = "seiran"      -> C64!seiran(o)
      [] name = "xsm32"       -> W32!xsm32(o)
      [] name = "xsm64"       -> W64!xsm64(o)
      [] name = "lxm"         -> W64!lxm(o)
      [] name = "msws32"      -> W64!msws32(o)
      [] name = "msws64"      -> W64!msws64(o)
      [] name = "rrma2xsm2xs" -> LET x == M64!rrma2xsm2xs(o.s[0]) IN Single(x, x)

next_product(name, o) ==
    CASE name = "wyrand"           -> P8!wyrand(o)
      [] name = "mumx_ctr2"        -> P8!mumx_ctr2(o)
      [] name = "clmulrand"        -> P8!clmulrand(o)
      [] name = "mumx_mumx_rrxx_1" -> P8!mumx_mumx_rrxx_1(o)
      [] name = "mumx_mumx_x1"     -> P8!mumx_mumx_x1(o)
      [] name = "mumx_mumx_x2"     -> P8!mumx_mumx_x2(o)
      [] name = "squares32"        -> P8!squares32(o)
      [] name = "squares64"        -> P8!squares64(o)

next_block(name, o) ==
    CASE name = "aes_r1_ctr_128"           -> B4!aes_r1_ctr_128(o)
      [] name = "aes_r2_ctr_128"           -> B4!aes_r2_ctr_128(o)
      [] name = "aes_r3_ctr_128"           -> B4!aes_r3_ctr_128(o)
      [] name = "aes_compress_r2_ctr2_128" -> B4!aes_compress_r2_ctr2_128(o)
      [] name = "aes_compress_r3_ctr2_128" -> B4!aes_compress_r3_ctr2_128(o)
      [] name = "sha1_ctr_128"             -> B4!sha1_ctr_128(o)
      [] name = "sha256_ctr_128"           -> B4!sha256_ctr_128(o)

MCnext(prng, o) ==
    CASE prng.kind = "mixer"   ->
            LET n == M8!next(M8!CounterMixer[prng.name], o.s[0])
            IN  Single(n.s, n.result)
      [] prng.kind = "lcg"     -> Single(next_lcg(prng.name, o.s[0]), {})
      [] prng.kind = "xsm"     -> IF prng.name = "xsm32" THEN W4!xsm32(o) ELSE W4!xsm64(o)
      [] prng.kind = "product" -> next_product(prng.name, o)
      [] prng.kind = "block"   -> next_block(prng.name, o)
      [] prng.kind = "real"    -> next_real(prng.name, o)

(* The seeds of seeds.hpp: bytes of zero, and bytes of a pattern.             *)
seed_pattern_byte == {1, 3, 5, 7}       \* 0xAA

get_seed_bytes_zero(prng)    == [i \in 0..(size(prng) - 1) |-> {}]
get_seed_bytes_pattern(prng) ==
    [i \in 0..(size(prng) - 1) |-> {b \in 0..(bits(prng) - 1) : b % 8 \in seed_pattern_byte}]

(* A key may be anything.                                                     *)
MCSeeds(prng) ==
    {get_seed_bytes_zero(prng), get_seed_bytes_pattern(prng)}
    \cup IF prng.name \in aes_ctr
         THEN {(0 :> {} @@ 1 :> {} @@ 2 :> k @@ 3 :> l) : k, l \in SUBSET (0..3)}
         ELSE {}

-----------------------------------------------------------------------------
(* What the comments of mumx_ctr2 and clmulrand say of their products: they   *)
(* are no quadratic in the number of calls, of which the third differences    *)
(* would all be zero.                                                         *)
ProductsNotQuadratic ==
    g.name \in {"mumx_ctr2", "clmulrand"} =>
        LET s[n \in 0..6] == IF n = 0 THEN object.s ELSE P8!TwoCounters(s[n - 1])
            low(n)  == P8!lo(IF g.name = "mumx_ctr2" THEN P8!mumx_ctr2_product(s[n])
                             ELSE P8!clmulrand_product(s[n]))
            d1(n)   == P8!Sub(low(n + 1), low(n))
            d2(n)   == P8!Sub(d1(n + 1), d1(n))
        IN  \E n \in 0..3 : P8!Sub(d2(n + 1), d2(n)) # {}

(* What the comment of aes_ctr_init says its repair is for: no key, whatever  *)
(* the seed, makes the PRNG a function that does not tell the two halves of   *)
(* its counter apart.                                                         *)
HalvesToldApart ==
    g.name \in aes_ctr /\ calls = 0 =>
        \E a, b \in SUBSET (0..3) :
            LET output(lanes) == next_block(g.name, [object EXCEPT !.s[0] = lanes[1], !.s[1] = lanes[2]]).result
            IN  output(<<b, a>>) # B4!Swapped(output(<<a, b>>))

(* The two versions of simd_compress are one function: a PRNG has the same    *)
(* stream on x86 and on ARM.                                                  *)
PlatformsAgree ==
    g.name \in {"aes_compress_r2_ctr2_128", "aes_compress_r3_ctr2_128"} =>
        B4!VersionsAgree(B4!Block(object.s, 0), B4!Block(object.s, 1))
=============================================================================
