--------------------------------- MODULE Cycles ---------------------------------
(* Functions that go round all of their domain.                               *)
EXTENDS Naturals, FiniteSets

(* Whatever F is repeated on, it comes to everything: F is one cycle.         *)
OneCycle(F) ==
    /\ F \in [DOMAIN F -> DOMAIN F]
    /\ \A S \in SUBSET DOMAIN F : S # {} /\ (\A x \in S : F[x] \in S) => S = DOMAIN F

(* It has n elements.                                                         *)
HasPeriod(F, n) ==
    /\ OneCycle(F)
    /\ IsFiniteSet(DOMAIN F)
    /\ Cardinality(DOMAIN F) = n
=============================================================================
