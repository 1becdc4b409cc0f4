------------------------------ MODULE Xoroshiro1024 ------------------------------
(* The ring of the PRNGs of 1024 bits, as an implementation of what it stands *)
(* for: a shift register, which has no position and drops its first word at   *)
(* each call.                                                                 *)
EXTENDS LinearPrngs, Urbg

CONSTANTS
    N,          \* words of the ring, 16 in the code
    A, B, C     \* 25, 27 and 36 in the code

ASSUME RingAssumption ==
    N \in Nat \ {0, 1} /\ A \in Bits /\ B \in Nat /\ C \in Bits

(* The words of the ring from its position on.                                *)
View(o) == [s |-> [i \in 0..(N - 1) |-> o.s[(o.p + i) % N]], p |-> 0]

(* The shift register: its first two words leave, and what becomes of them    *)
(* enters, one at each end.                                                   *)
Shift(o) ==
    [s |-> [i \in 0..(N - 1) |->
              IF i = 0 THEN High(o.s[1], o.s[0], C)
              ELSE IF i = N - 1 THEN Low(o.s[1], o.s[0], A, B)
              ELSE o.s[i + 1]],
     p |-> 0]

Register ==
    INSTANCE Urbg WITH
        Positions <- {0},
        Step <- [o \in [s : Seeds, p : {0}] |-> Shift(o)],
        obj <- [o \in Objects |-> View(obj[o])]

(* The life of the ring objects is the life of shift registers.               *)
ImplementsShiftRegister == Register!Spec
=============================================================================
