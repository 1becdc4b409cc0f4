-------------------------------- MODULE Periods --------------------------------
(* The PRNGs whose init leaves a zero seed as it is, called again and again.  *)
(* Those whose period is known are followed all the way round, the others for *)
(* a while.                                                                   *)
EXTENDS Naturals

CONSTANTS
    Prngs,      \* the PRNGs
    Cyclic,     \* those whose period is known
    Mixers,     \* those of them that return a mixture of a counter
    Seeds(_),   \* the seeds that a PRNG is constructed with
    init(_, _), \* the object that init makes of a seed
    call(_, _), \* operator() of a PRNG: the object after it, and its result
    Period(_),  \* the period, as it should be
    Copies(_)   \* how often a mixer returns an output within a period

ASSUME PeriodsAssumption ==
    /\ Mixers \subseteq Cyclic /\ Cyclic \subseteq Prngs
    /\ \A g \in Cyclic : Period(g) \in Nat \ {0}
    /\ \A g \in Mixers : Copies(g) \in Nat

(* Calls that are made: one period, or a few.                                 *)
RealCalls == 12
Calls(g) == IF g \in Cyclic THEN Period(g) ELSE RealCalls

-----------------------------------------------------------------------------
VARIABLES
    g,          \* the PRNG
    start,      \* history: the object as its constructor left it
    object,     \* the object
    calls,      \* calls of it
    seen,       \* history: the states it was called in
    outputs     \* history: what they returned, and how often

vars == <<g, start, object, calls, seen, outputs>>

Init ==
    /\ g \in Prngs
    /\ \E seed \in Seeds(g) : start = init(g, seed)
    /\ object = start
    /\ calls = 0
    /\ seen = {}
    /\ outputs = [r \in {} |-> 0]

(* An output is counted.                                                      *)
Times(r) == IF r \in DOMAIN outputs THEN outputs[r] ELSE 0
Count(result) ==
    [r \in DOMAIN outputs \cup {result} |-> IF r = result THEN Times(r) + 1 ELSE outputs[r]]

Call ==
    /\ calls < Calls(g)
    /\ LET n == call(g, object)
       IN  /\ object' = n.object
           /\ outputs' = Count(n.result)
    /\ seen' = seen \cup {object.s}
    /\ calls' = calls + 1
    /\ UNCHANGED <<g, start>>

Done ==
    /\ calls = Calls(g)
    /\ UNCHANGED vars

Next == Call \/ Done

Spec == Init /\ [][Next]_vars

-----------------------------------------------------------------------------
(* "Must be odd" of an increment, and more than that of a multiplier: the     *)
(* state comes back to the seed after as many calls as there are states, and  *)
(* no state comes back before.  xsm's comparison for the carry makes one      *)
(* counter of its two words; counters side by side share their period.        *)
FullPeriod ==
    g \in Cyclic =>
        /\ calls \in 1..(Period(g) - 1) => object.s \notin seen
        /\ calls = Period(g) => object = start

(* A mixer is one-to-one: within a period, every output is returned equally   *)
(* often, which is once, or 16 times if it is the high half of a mixture.     *)
EveryOutputEquallyOften ==
    g \in Mixers =>
        \A r \in DOMAIN outputs : outputs[r] <= Copies(g)

(* The zero seed is a seed like any other: constants and repairs take every   *)
(* word of every PRNG away from zero within a few calls, and states do not    *)
(* repeat.                                                                    *)
LeavesZeroSeed ==
    g \notin Cyclic =>
        /\ object.s \notin seen
        /\ calls \in 8..RealCalls => \A i \in DOMAIN object.s : object.s[i] # {}
=============================================================================
