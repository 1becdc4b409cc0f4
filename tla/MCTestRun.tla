------------------------------- MODULE MCTestRun -------------------------------
(* Values of the constants of TestRun for TLC.                                *)
EXTENDS TestRun, TLC

(* The seed types of "make short-test", cut down to two, and of               *)
(* "make long-test".                                                          *)
MCShortAndLong == {<<"default", "random">>, <<"random">>}
MCLong         == {<<"random">>}

Symmetry == Permutations(Prngs)
=============================================================================
