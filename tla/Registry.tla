-------------------------------- MODULE Registry --------------------------------
(* The PRNGs by name.  The program has four lists of them, kept by hand: the  *)
(* map that prng-dump looks names up in and prints (prng.hpp), the tests that *)
(* find the PRNG to dump (main of prng-dump.cpp), and the benchmarks of a     *)
(* call and of a construction (prng-next-benchmark.cpp,                       *)
(* prng-construct-benchmark.cpp).  Each depends on the instructions that the  *)
(* compiler may use.                                                          *)

(* The macros that say which instructions there are.                          *)
Features == {"AES", "PCLMUL", "SHA"}

IfDefined(macro, features, names) == IF macro \in features THEN names ELSE {}

(* The engines of <random>, which are not my_urbg.                             *)
std_engines ==
    {"std::default_random_engine", "std::knuth_b", "std::minstd_rand", "std::minstd_rand0",
     "std::mt19937", "std::mt19937_64", "std::philox4x32", "std::philox4x64", "std::ranlux24",
     "std::ranlux24_base", "std::ranlux48", "std::ranlux48_base"}

(* The keys of prng_name_to_info.                                             *)
prng_name_to_info(features) ==
    {"std::default_random_engine", "std::knuth_b", "std::minstd_rand", "std::minstd_rand0",
     "std::mt19937", "std::mt19937_64", "std::philox4x32", "std::philox4x64", "std::ranlux24",
     "std::ranlux24_base", "std::ranlux48", "std::ranlux48_base", "biski64", "degski32",
     "degski64", "ettinger_mixer", "gjrand", "jsf32_2", "jsf32_3", "jsf64", "klimov_shamir_32",
     "lcg32", "lcg64", "lea64", "lehmer64", "lxm", "mcg128", "moremur", "msws32", "msws64",
     "mumx_ctr2", "mumx_mumx_rrxx_1", "mumx_mumx_x1", "mumx_mumx_x2", "murmurhash3",
     "murmurhash3_32", "mx3", "nasam", "nasam_not", "pcg32", "pcg32_fast", "pcg64", "pcg64dxsm",
     "romu_duo", "romu_duo_jr", "romu_quad", "romu_quad32", "romu_trio", "romu_trio32",
     "rrma2xsm2xs", "rrmxmx", "rrxmrrxmsx_0", "seiran", "sfc32", "sfc64", "shioi", "splitmix32",
     "splitmix64", "splitxix33", "squares32", "squares64", "staffordMix13", "stc_crand32",
     "stc_crand64", "ttwanghash64", "wyrand", "xnasam", "xnasamx", "xoroshiro64starstar",
     "xoroshiro128plusplus", "xoroshiro128starstar", "xoroshiro1024plusplus",
     "xoroshiro1024starstar", "xoroshiro128aox", "xoshiro128plusplus", "xoshiro128starstar",
     "xoshiro256plusplus", "xoshiro256starstar", "xoshiro512plusplus", "xoshiro512starstar",
     "xsm32", "xsm64", "xxh32_avalanche", "xxh64_avalanche", "xxh3_avalanche", "xxh3_rrmxmx"}
    \cup IfDefined("AES", features,
            {"aes_compress_r2_ctr2_128", "aes_compress_r3_ctr2_128", "aes_r1_ctr_128",
             "aes_r2_ctr_128", "aes_r3_ctr_128"})
    \cup IfDefined("PCLMUL", features,
            {"clmulrand"})
    \cup IfDefined("SHA", features,
            {"sha1_ctr_128", "sha256_ctr_128"})

CONDITIONAL_DUMP_Sha1(features) ==      \* mutant: an entry in the wrong #if
    (prng_name_to_info(features) \ {"sha1_ctr_128"})
    \cup IfDefined("AES", features, {"sha1_ctr_128"})

(* The names that main compares its operand with.                             *)
CONDITIONAL_DUMP(features) ==
    {"std::default_random_engine", "std::knuth_b", "std::minstd_rand", "std::minstd_rand0",
     "std::mt19937", "std::mt19937_64", "std::philox4x32", "std::philox4x64", "std::ranlux24",
     "std::ranlux24_base", "std::ranlux48", "std::ranlux48_base", "biski64", "degski32",
     "degski64", "ettinger_mixer", "gjrand", "jsf32_2", "jsf32_3", "jsf64", "klimov_shamir_32",
     "lcg32", "lcg64", "lea64", "lehmer64", "lxm", "mcg128", "moremur", "msws32", "msws64",
     "mumx_ctr2", "mumx_mumx_rrxx_1", "mumx_mumx_x1", "mumx_mumx_x2", "murmurhash3",
     "murmurhash3_32", "mx3", "nasam", "nasam_not", "pcg32", "pcg32_fast", "pcg64", "pcg64dxsm",
     "romu_duo", "romu_duo_jr", "romu_quad", "romu_quad32", "romu_trio", "romu_trio32",
     "rrma2xsm2xs", "rrmxmx", "rrxmrrxmsx_0", "seiran", "sfc32", "sfc64", "shioi", "splitmix32",
     "splitmix64", "splitxix33", "squares32", "squares64", "staffordMix13", "stc_crand32",
     "stc_crand64", "ttwanghash64", "wyrand", "xnasam", "xnasamx", "xoroshiro64starstar",
     "xoroshiro128plusplus", "xoroshiro128starstar", "xoroshiro1024plusplus",
     "xoroshiro1024starstar", "xoroshiro128aox", "xoshiro128plusplus", "xoshiro128starstar",
     "xoshiro256plusplus", "xoshiro256starstar", "xoshiro512plusplus", "xoshiro512starstar",
     "xsm32", "xsm64", "xxh32_avalanche", "xxh64_avalanche", "xxh3_avalanche", "xxh3_rrmxmx"}
    \cup IfDefined("AES", features,
            {"aes_compress_r2_ctr2_128", "aes_compress_r3_ctr2_128", "aes_r1_ctr_128",
             "aes_r2_ctr_128", "aes_r3_ctr_128"})
    \cup IfDefined("PCLMUL", features,
            {"clmulrand"})
    \cup IfDefined("SHA", features,
            {"sha1_ctr_128", "sha256_ctr_128"})

REGISTER_BENCHMARK_PRNG_NEXT_Stale(features) ==     \* mutant: a PRNG was not added here
    prng_name_to_info(features) \ {"wyrand"}

(* The names of the benchmarks of a call.                                     *)
REGISTER_BENCHMARK_PRNG_NEXT(features) ==
    {"std::default_random_engine", "std::knuth_b", "std::minstd_rand", "std::minstd_rand0",
     "std::mt19937", "std::mt19937_64", "std::philox4x32", "std::philox4x64", "std::ranlux24",
     "std::ranlux24_base", "std::ranlux48", "std::ranlux48_base", "biski64", "degski32",
     "degski64", "ettinger_mixer", "gjrand", "jsf32_2", "jsf32_3", "jsf64", "klimov_shamir_32",
     "lcg32", "lcg64", "lea64", "lehmer64", "lxm", "mcg128", "moremur", "msws32", "msws64",
     "mumx_ctr2", "mumx_mumx_rrxx_1", "mumx_mumx_x1", "mumx_mumx_x2", "murmurhash3",
     "murmurhash3_32", "mx3", "nasam", "nasam_not", "pcg32", "pcg32_fast", "pcg64", "pcg64dxsm",
     "romu_duo", "romu_duo_jr", "romu_quad", "romu_quad32", "romu_trio", "romu_trio32",
     "rrma2xsm2xs", "rrmxmx", "rrxmrrxmsx_0", "seiran", "sfc32", "sfc64", "shioi", "splitmix32",
     "splitmix64", "splitxix33", "squares32", "squares64", "staffordMix13", "stc_crand32",
     "stc_crand64", "ttwanghash64", "wyrand", "xnasam", "xnasamx", "xoroshiro64starstar",
     "xoroshiro128plusplus", "xoroshiro128starstar", "xoroshiro1024plusplus",
     "xoroshiro1024starstar", "xoroshiro128aox", "xoshiro128plusplus", "xoshiro128starstar",
     "xoshiro256plusplus", "xoshiro256starstar", "xoshiro512plusplus", "xoshiro512starstar",
     "xsm32", "xsm64", "xxh32_avalanche", "xxh64_avalanche", "xxh3_avalanche", "xxh3_rrmxmx"}
    \cup IfDefined("AES", features,
            {"aes_compress_r2_ctr2_128", "aes_compress_r3_ctr2_128", "aes_r1_ctr_128",
             "aes_r2_ctr_128", "aes_r3_ctr_128"})
    \cup IfDefined("PCLMUL", features,
            {"clmulrand"})
    \cup IfDefined("SHA", features,
            {"sha1_ctr_128", "sha256_ctr_128"})

(* The names of the benchmarks of a construction.                             *)
REGISTER_BENCHMARK_PRNG_CONSTRUCT(features) ==
    {"std::default_random_engine", "std::knuth_b", "std::minstd_rand", "std::minstd_rand0",
     "std::mt19937", "std::mt19937_64", "std::philox4x32", "std::philox4x64", "std::ranlux24",
     "std::ranlux24_base", "std::ranlux48", "std::ranlux48_base", "biski64", "degski32",
     "degski64", "ettinger_mixer", "gjrand", "jsf32_2", "jsf32_3", "jsf64", "klimov_shamir_32",
     "lcg32", "lcg64", "lea64", "lehmer64", "lxm", "mcg128", "moremur", "msws32", "msws64",
     "mumx_ctr2", "mumx_mumx_rrxx_1", "mumx_mumx_x1", "mumx_mumx_x2", "murmurhash3",
     "murmurhash3_32", "mx3", "nasam", "nasam_not", "pcg32", "pcg32_fast", "pcg64", "pcg64dxsm",
     "romu_duo", "romu_duo_jr", "romu_quad", "romu_quad32", "romu_trio", "romu_trio32",
     "rrma2xsm2xs", "rrmxmx", "rrxmrrxmsx_0", "seiran", "sfc32", "sfc64", "shioi", "splitmix32",
     "splitmix64", "splitxix33", "squares32", "squares64", "staffordMix13", "stc_crand32",
     "stc_crand64", "ttwanghash64", "wyrand", "xnasam", "xnasamx", "xoroshiro64starstar",
     "xoroshiro128plusplus", "xoroshiro128starstar", "xoroshiro1024plusplus",
     "xoroshiro1024starstar", "xoroshiro128aox", "xoshiro128plusplus", "xoshiro128starstar",
     "xoshiro256plusplus", "xoshiro256starstar", "xoshiro512plusplus", "xoshiro512starstar",
     "xsm32", "xsm64", "xxh32_avalanche", "xxh64_avalanche", "xxh3_avalanche", "xxh3_rrmxmx"}
    \cup IfDefined("AES", features,
            {"aes_compress_r2_ctr2_128", "aes_compress_r3_ctr2_128", "aes_r1_ctr_128",
             "aes_r2_ctr_128", "aes_r3_ctr_128"})
    \cup IfDefined("PCLMUL", features,
            {"clmulrand"})
    \cup IfDefined("SHA", features,
            {"sha1_ctr_128", "sha256_ctr_128"})
=============================================================================
