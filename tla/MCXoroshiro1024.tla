----------------------------- MODULE MCXoroshiro1024 -----------------------------
(* A ring of a few words of a few bits, for TLC.                              *)
EXTENDS Xoroshiro1024

MCSeeds == [0..(N - 1) -> Word]
MCZero  == [i \in 0..(N - 1) |-> {}]
MCIota  == [i \in 0..(N - 1) |-> Number(i + 1)]
MCStep  == [o \in [s : MCSeeds, p : 0..(N - 1)] |-> Ring(o, N, A, B, C)]
=============================================================================
