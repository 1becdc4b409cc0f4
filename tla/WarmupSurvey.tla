------------------------------ MODULE WarmupSurvey ------------------------------
(* warmup-survey.cpp, together with the warm-ups it is about: for each PRNG   *)
(* that discards outputs in init, an object is constructed from an all-zero   *)
(* seed, its state is reset to what init has before the warm-up, and its      *)
(* outputs are measured.  The words have their real widths.                   *)
EXTENDS Naturals, FiniteSets

CONSTANT next(_, _)     \* next() of a PRNG, by name: the object after it, and its result

W64 == INSTANCE Words WITH W <- 64

max_calls == 48

(* The PRNGs that main surveys with each start.                               *)
IotaStarts ==
    {"xoroshiro128aox", "xoroshiro128plusplus", "xoroshiro128starstar",
     "xoroshiro1024plusplus", "xoroshiro1024starstar",
     "xoshiro128plusplus", "xoshiro128starstar", "xoshiro256plusplus",
     "xoshiro256starstar", "xoshiro512plusplus", "xoshiro512starstar"}
ZeroStarts == {"sfc32", "sfc64", "biski64", "klimov_shamir_32"}

(* The classes: the words of the state, the bits of an output, what init      *)
(* makes of a state of all zeros, and how many outputs it discards.           *)
Class(words, bits, zero, num_warmup_discards) ==
    [words |-> words, bits |-> bits, zero |-> zero, num_warmup_discards |-> num_warmup_discards]

xoroshiro128aox       == Class(2, 64, "replaced", 3)
xoroshiro128plusplus  == Class(2, 64, "replaced", 3)
xoroshiro128starstar  == Class(2, 64, "replaced", 4)
xoroshiro1024plusplus == Class(16, 64, "replaced", 8)
xoroshiro1024starstar == Class(16, 64, "replaced", 22)
xoshiro128plusplus    == Class(4, 32, "replaced", 4)
xoshiro128starstar    == Class(4, 32, "replaced", 4)
xoshiro256plusplus    == Class(4, 64, "replaced", 5)
xoshiro256starstar    == Class(4, 64, "replaced", 6)
xoshiro512plusplus    == Class(8, 64, "replaced", 8)
xoshiro512starstar    == Class(8, 64, "replaced", 8)
sfc32                 == Class(4, 32, "kept", 6)
sfc64                 == Class(4, 64, "kept", 9)
biski64               == Class(3, 64, "kept", 16)
klimov_shamir_32      == Class(1, 32, "kept", 5)

Prngs ==
    [xoroshiro128aox |-> xoroshiro128aox,
     xoroshiro128plusplus |-> xoroshiro128plusplus, xoroshiro128starstar |-> xoroshiro128starstar,
     xoroshiro1024plusplus |-> xoroshiro1024plusplus, xoroshiro1024starstar |-> xoroshiro1024starstar,
     xoshiro128plusplus |-> xoshiro128plusplus, xoshiro128starstar |-> xoshiro128starstar,
     xoshiro256plusplus |-> xoshiro256plusplus, xoshiro256starstar |-> xoshiro256starstar,
     xoshiro512plusplus |-> xoshiro512plusplus, xoshiro512starstar |-> xoshiro512starstar,
     sfc32 |-> sfc32, sfc64 |-> sfc64, biski64 |-> biski64, klimov_shamir_32 |-> klimov_shamir_32]

ZeroState(g) == [i \in 0..(Prngs[g].words - 1) |-> {}]
IotaState(g) == [i \in 0..(Prngs[g].words - 1) |-> W64!Number(i + 1)]

Replaced(g) == IF Prngs[g].zero = "replaced" THEN IotaState(g) ELSE ZeroState(g)

num_warmup_discards_Same(g) == 8        \* mutant: one count for all

num_warmup_discards(g) == Prngs[g].num_warmup_discards

reset_state_KeepsPosition(g, o) ==      \* mutant: p is not reset
    [o EXCEPT !.s = IF g \in IotaStarts THEN IotaState(g) ELSE ZeroState(g)]

reset_state(g, o) ==
    [s |-> IF g \in IotaStarts THEN IotaState(g) ELSE ZeroState(g), p |-> 0]

(* At least 40% of the bits are set.                                          *)
LooksFilled(g, word) == 100 * Cardinality(word) >= 40 * Prngs[g].bits

-----------------------------------------------------------------------------
VARIABLES
    g,                  \* the PRNG surveyed
    object,             \* the object
    discarded,          \* outputs that its constructor has discarded
    warmed,             \* history: the object as its constructor left it, once it has
    k,                  \* outputs measured
    previous,           \* the last output
    popcount_discards, delta_discards   \* first index that reaches the threshold

vars == <<g, object, discarded, warmed, k, previous, popcount_discards, delta_discards>>

Init ==
    /\ g \in IotaStarts \cup ZeroStarts
    /\ object = [s |-> Replaced(g), p |-> 0]
    /\ discarded = 0
    /\ warmed = {}
    /\ k = 0 /\ previous = {}
    /\ popcount_discards = max_calls /\ delta_discards = max_calls

(* The loop of init.                                                          *)
Discard ==
    /\ warmed = {}
    /\ discarded < num_warmup_discards(g)
    /\ discarded' = discarded + 1
    /\ object' = next(g, object).object
    /\ UNCHANGED <<g, warmed, k, previous, popcount_discards, delta_discards>>

(* The constructor returns, and the survey resets the state.                  *)
Reset ==
    /\ warmed = {}
    /\ discarded = num_warmup_discards(g)
    /\ warmed' = {object}
    /\ object' = reset_state(g, object)
    /\ UNCHANGED <<g, discarded, k, previous, popcount_discards, delta_discards>>

First(found, reached) == IF found = max_calls /\ reached THEN k ELSE found

Measure ==
    /\ warmed # {}
    /\ k < max_calls
    /\ LET output == next(g, object).result
       IN  /\ object' = next(g, object).object
           /\ previous' = output
           /\ popcount_discards' = First(popcount_discards, LooksFilled(g, output))
           /\ delta_discards' = First(delta_discards,
                                      k > 0 /\ LooksFilled(g, W64!Xor(output, previous)))
    /\ k' = k + 1
    /\ UNCHANGED <<g, discarded, warmed>>

Done ==
    /\ k = max_calls
    /\ UNCHANGED vars

Next == Discard \/ Reset \/ Measure \/ Done

Spec == Init /\ [][Next]_vars

-----------------------------------------------------------------------------
(* "The warm-up discards the zero-seed outputs that still have mostly zero    *)
(* bits": the constructor discards at least as many outputs as the survey     *)
(* asks for.                                                                  *)
WarmupIsLongEnough ==
    k = max_calls => popcount_discards <= num_warmup_discards(g)

(* The survey measures the stream of a constructed object: after as many      *)
(* outputs as the constructor discards, it is where the constructor left it.  *)
SurveysTheObject ==
    k = num_warmup_discards(g) => \A o \in warmed : object = o
=============================================================================
