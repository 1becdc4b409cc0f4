------------------------------- MODULE BlockPrngs -------------------------------
(* The PRNGs that encrypt or hash counters with instructions of the processor *)
(* (aes_ctr.hpp, aes_compress_ctr2.hpp, sha1_ctr.hpp, sha256_ctr.hpp).  What  *)
(* the instructions do to a block is a parameter.  The words of an object are *)
(* the two lanes of each of its blocks, in order.                             *)
EXTENDS SimdCompress

CONSTANT
    ShaRounds(_, _, _, _)   \* rounds of SHA, by the instruction's name: of two blocks, with
                            \* the round function or the round constants of that number

LOCAL INSTANCE SequencesExt

After(o, s, result) == [object |-> [o EXCEPT !.s = s], result |-> result]

Block(s, i) == <<s[2 * i], s[2 * i + 1]>>

Swapped(a) == <<a[2], a[1]>>

wyp == <<Literal(<<\h2d35, \h8dcc, \haa6c, \h78a5>>), Literal(<<\h8bb8, \h4b93, \h962e, \hacc9>>),
         Literal(<<\h4b33, \ha62e, \hd433, \hd4a3>>), Literal(<<\h4d5a, \h2da5, \h1de1, \haa47>>)>>

(* Each lane is a counter of its own.                                         *)
Advanced(s, lanes) == [i \in DOMAIN s |-> IF i \in lanes THEN Add(s[i], wyp[i + 1]) ELSE s[i]]

-----------------------------------------------------------------------------
(* aes_ctr.hpp: block 0 is a counter and block 1 a key.                       *)

SHA_512_H0 == <<Literal(<<\h6a09, \he667, \hf3bc, \hc908>>), Literal(<<\hbb67, \hae85, \h84ca, \ha73b>>)>>

aes_ctr_init_OneMask(s) ==      \* mutant: both lanes get the same constant
    [s EXCEPT ![2] = IF s[2] = s[3] THEN Xor(@, SHA_512_H0[1]) ELSE @,
              ![3] = IF s[2] = s[3] THEN Xor(@, SHA_512_H0[1]) ELSE @]

(* A key of two equal lanes is changed.                                       *)
aes_ctr_init(s) ==
    LET key_mask == IF s[2] = s[3] THEN SHA_512_H0 ELSE <<{}, {}>>
    IN  [s EXCEPT ![2] = Xor(@, key_mask[1]), ![3] = Xor(@, key_mask[2])]

Encrypted(counter, key, Nr) == FoldLeft(LAMBDA dst, r : aesenc(dst, key), counter, [r \in 1..Nr |-> r])

aes_ctr_next(o, Nr) == After(o, Advanced(o.s, {0, 1}), Encrypted(Block(o.s, 0), Block(o.s, 1), Nr))

aes_r1_ctr_128(o) == aes_ctr_next(o, 1)
aes_r2_ctr_128(o) == aes_ctr_next(o, 2)
aes_r3_ctr_128(o) == aes_ctr_next(o, 3)

-----------------------------------------------------------------------------
(* aes_compress_ctr2.hpp: both blocks are counters.                           *)

aes_compress_ctr2_advance(s) == Advanced(s, 0..3)

aes_compress_r2_ctr2_128(o) ==
    LET s == aes_compress_ctr2_advance(o.s) IN After(o, s, x86_r2(Block(s, 0), Block(s, 1)))

aes_compress_r3_ctr2_128(o) ==
    LET s == aes_compress_ctr2_advance(o.s) IN After(o, s, x86_r3(Block(s, 0), Block(s, 1)))

-----------------------------------------------------------------------------
(* sha1_ctr.hpp, sha256_ctr.hpp: two blocks are hashed in turn, each with the *)
(* other as its message; they begin as the counter before and after a step.   *)

Hashed(instruction, a, b) ==
    LET a1 == ShaRounds(instruction, a, b, 0)
        b1 == ShaRounds(instruction, b, a1, 1)
        a2 == ShaRounds(instruction, a1, b1, 2)
    IN  ShaRounds(instruction, b1, a2, 3)

sha_ctr(instruction, o) ==
    LET s == Advanced(o.s, {0, 1}) IN After(o, s, Hashed(instruction, Block(o.s, 0), Block(s, 0)))

sha1_ctr_128(o)   == sha_ctr("sha1rnds4", o)
sha256_ctr_128(o) == sha_ctr("sha256rnds2", o)
=============================================================================
