---------------------------------- MODULE Urbg ----------------------------------
(* The life cycle of a PRNG object (urbg_base_class.hpp): it is constructed   *)
(* from a state, from seed bytes or from entropy, prepared by init, called,   *)
(* copied, moved, assigned to, and destroyed.                                 *)
(*                                                                            *)
(* The PRNG is a parameter.  This is the life cycle of those whose init may   *)
(* replace the state that is all zeros and then discard some outputs.         *)
EXTENDS Naturals

CONSTANTS
    Objects,    \* places in memory for PRNG objects
    Seeds,      \* the states that a seed can give: the values of the array s
    Positions,  \* the values of p, {0} for a PRNG that has none
    Zero,       \* state_type{}
    Iota,       \* what init makes of it: 1, 2, 3, ..., or Zero itself
    Step,       \* what next() does to the object
    Discards,   \* num_warmup_discards
    MaxCalls    \* bound: calls of an object

State == [s : Seeds, p : Positions]

ASSUME SeedsAssumption == Zero \in Seeds /\ Iota \in Seeds /\ 0 \in Positions
ASSUME DiscardsAssumption == Discards \in Nat

VARIABLES
    made,       \* the objects whose constructor has started
    obj,        \* the memory of each object
    left,       \* the outputs that init has still to discard
    seed,       \* history: the seed of each object, or of what it is a copy of
    calls       \* history: the calls since it was constructed

vars == <<made, obj, left, seed, calls>>

(* The objects whose constructor has returned.                                *)
Live == {o \in made : left[o] = 0}

Init ==
    /\ made = {}
    /\ obj = [o \in Objects |-> [s |-> Zero, p |-> 0]]
    /\ left = [o \in Objects |-> 0]
    /\ seed = [o \in Objects |-> Zero]
    /\ calls = [o \in Objects |-> 0]

-----------------------------------------------------------------------------
Replaced_Never(s) == s      \* mutant: init does not replace the zero state

(* init replaces a state that is all zeros.                                   *)
Replaced(s) == IF s = Zero THEN Iota ELSE s

(* A constructor starts: the seed is entropy, a state or bytes.               *)
Construct(o) ==
    /\ o \notin made
    /\ made' = made \cup {o}
    /\ \E s \in Seeds :
          /\ obj' = [obj EXCEPT ![o] = [s |-> Replaced(s), p |-> 0]]
          /\ seed' = [seed EXCEPT ![o] = s]
    /\ left' = [left EXCEPT ![o] = Discards]
    /\ UNCHANGED calls

Discard_OneMore(o) ==       \* mutant: the loop of init runs once too often
    /\ o \in made
    /\ left[o] + 1 > 0
    /\ obj' = [obj EXCEPT ![o] = Step[@]]
    /\ left' = [left EXCEPT ![o] = @ - 1]
    /\ UNCHANGED <<made, seed, calls>>

(* The loop of init: one output is discarded.                                 *)
Discard(o) ==
    /\ o \in made
    /\ left[o] > 0
    /\ obj' = [obj EXCEPT ![o] = Step[@]]
    /\ left' = [left EXCEPT ![o] = @ - 1]
    /\ UNCHANGED <<made, seed, calls>>

(* operator(), which is next().                                               *)
Call(o) ==
    /\ o \in Live
    /\ calls[o] < MaxCalls
    /\ obj' = [obj EXCEPT ![o] = Step[@]]
    /\ calls' = [calls EXCEPT ![o] = @ + 1]
    /\ UNCHANGED <<made, left, seed>>

Copied_BaseOnly(o, from) == [obj[o] EXCEPT !.s = obj[from].s]   \* mutant: p is left behind

Copied(o, from) == obj[from]

(* The copy and move constructors and assignments, which are defaulted: to    *)
(* move is to copy, and what is moved from goes on as before.                 *)
Copy(o, from) ==
    /\ from \in Live \ {o}
    /\ o \in made => o \in Live
    /\ made' = made \cup {o}
    /\ obj' = [obj EXCEPT ![o] = Copied(o, from)]
    /\ seed' = [seed EXCEPT ![o] = seed[from]]
    /\ calls' = [calls EXCEPT ![o] = calls[from]]
    /\ UNCHANGED left

(* The destructor erases s, but not p.                                        *)
Destroy(o) ==
    /\ o \in Live
    /\ made' = made \ {o}
    /\ obj' = [obj EXCEPT ![o].s = Zero]
    /\ seed' = [seed EXCEPT ![o] = Zero]
    /\ calls' = [calls EXCEPT ![o] = 0]
    /\ UNCHANGED left

Next ==
    \E o \in Objects :
        \/ Construct(o) \/ Discard(o) \/ Call(o) \/ Destroy(o)
        \/ \E from \in Objects : Copy(o, from)

Spec == Init /\ [][Next]_vars

-----------------------------------------------------------------------------
TypeOK ==
    /\ made \subseteq Objects
    /\ obj \in [Objects -> State]
    /\ left \in [Objects -> 0..Discards]
    /\ \A o \in Objects \ made : left[o] = 0 /\ calls[o] = 0
    /\ seed \in [Objects -> Seeds]
    /\ calls \in [Objects -> Nat]

(* "The state must be seeded so that it is not everywhere zero": no seed, no  *)
(* warm-up and no number of calls takes a PRNG to the state of all zeros, in  *)
(* which it would stay and return zeros.  Of the PRNGs whose init replaces it.*)
NeverZero == \A o \in made : obj[o].s # Zero

(* Two objects after the same number of calls are in the same state if, and   *)
(* only if, init made the same of their seeds: streams from different seeds   *)
(* never merge at the same call, and a copy follows its original.             *)
StreamsApart ==
    \A o, q \in Live :
        calls[o] = calls[q] =>
            (obj[o] = obj[q] <=> Replaced(seed[o]) = Replaced(seed[q]))
=============================================================================
