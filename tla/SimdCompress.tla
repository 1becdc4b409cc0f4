------------------------------ MODULE SimdCompress ------------------------------
(* The rounds of AES that make one block of two (simd_compress.hpp), on x86   *)
(* and on ARM.  A block is a sequence of two words; what the halves of a      *)
(* round do to it is a parameter.                                             *)
EXTENDS Words

CONSTANTS
    SubBytesShiftRows(_),   \* the first half of a round of AES
    MixColumns(_)           \* the second half

XorBlock(a, b) == [i \in 1..2 |-> Xor(a[i], b[i])]

(* The instructions: a round of encryption with its key last on x86, and      *)
(* first, without the mixing of columns, on ARM.                              *)

aesenc(a, key) == XorBlock(MixColumns(SubBytesShiftRows(a)), key)
aese(a, key)   == SubBytesShiftRows(XorBlock(a, key))
aesmc(a)       == MixColumns(a)

-----------------------------------------------------------------------------
(* Two blocks into one.                                                       *)

x86_r2(a, b) == aesenc(aesenc(a, b), a)
x86_r3(a, b) == aesenc(aesenc(aesenc(b, a), b), a)
x86_r4(a, b) == aesenc(aesenc(aesenc(aesenc(a, b), a), b), a)

arm_round(a, key) == aesmc(aese(a, key))
arm_zero == <<{}, {}>>

arm_r2_KeyFirst(a, b) ==        \* mutant: the keys in the places they have on x86
    XorBlock(arm_round(arm_round(a, b), a), arm_zero)

arm_r2(a, b) == XorBlock(arm_round(arm_round(a, arm_zero), b), a)
arm_r3(a, b) == XorBlock(arm_round(arm_round(arm_round(b, arm_zero), a), b), a)
arm_r4(a, b) == XorBlock(arm_round(arm_round(arm_round(arm_round(a, arm_zero), b), a), b), a)

-----------------------------------------------------------------------------
(* The two versions are one function of two blocks.                           *)
VersionsAgree(a, b) ==
    /\ x86_r2(a, b) = arm_r2(a, b)
    /\ x86_r3(a, b) = arm_r3(a, b)
    /\ x86_r4(a, b) = arm_r4(a, b)
=============================================================================
