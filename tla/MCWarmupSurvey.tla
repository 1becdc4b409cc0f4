---------------------------- MODULE MCWarmupSurvey ----------------------------
(* The survey of the PRNGs of the program, at their real widths.              *)
EXTENDS WarmupSurvey

L32 == INSTANCE LinearPrngs WITH W <- 32
L64 == INSTANCE LinearPrngs WITH W <- 64
C32 == INSTANCE ChaoticPrngs WITH W <- 32
C64 == INSTANCE ChaoticPrngs WITH W <- 64

(* next() by name.                                                            *)
MCnext(name, o) ==
    CASE name = "xoroshiro128aox"       -> L64!xoroshiro128aox(o)
      [] name = "xoroshiro128plusplus"  -> L64!xoroshiro128plusplus(o)
      [] name = "xoroshiro128starstar"  -> L64!xoroshiro128starstar(o)
      [] name = "xoroshiro1024plusplus" -> L64!xoroshiro1024plusplus(o)
      [] name = "xoroshiro1024starstar" -> L64!xoroshiro1024starstar(o)
      [] name = "xoshiro128plusplus"    -> L32!xoshiro128plusplus(o)
      [] name = "xoshiro128starstar"    -> L32!xoshiro128starstar(o)
      [] name = "xoshiro256plusplus"    -> L64!xoshiro256plusplus(o)
      [] name = "xoshiro256starstar"    -> L64!xoshiro256starstar(o)
      [] name = "xoshiro512plusplus"    -> L64!xoshiro512plusplus(o)
      [] name = "xoshiro512starstar"    -> L64!xoshiro512starstar(o)
      [] name = "sfc32"                 -> C32!sfc32(o)
      [] name = "sfc64"                 -> C64!sfc64(o)
      [] name = "biski64"               -> C64!biski64(o)
      [] name = "klimov_shamir_32"      -> C64!klimov_shamir_32(o)
=============================================================================
