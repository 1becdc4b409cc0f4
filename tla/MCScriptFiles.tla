----------------------------- MODULE MCScriptFiles -----------------------------
(* Values of the constants of ScriptFiles for TLC.                            *)
EXTENDS ScriptFiles

CONSTANTS p1, p2

MCListed     == <<p1, p2>>
MCShortSeeds == <<"default", "random">>

(* A user who wants one PRNG, or one and then both (an argument such as "64"  *)
(* matches several lines), one job at a time or two, with another -f.         *)
MCUserOptions ==
    {[args |-> a, tlmax |-> "256MB", tf |-> 0, seeds |-> <<"random">>, jobs |-> j, dry |-> FALSE] :
        a \in {<<{p1}>>, <<{p1}, {p1, p2}>>}, j \in {1, 2}}
=============================================================================
