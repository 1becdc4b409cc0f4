------------------------------ MODULE ByteStream ------------------------------
(* What prng-dump promises to the program that reads its output: the bytes of *)
(* the generator, in order, none missing and none repeated, no more than the  *)
(* limit, and an ordinary end of file only after exactly the limit.           *)
(*                                                                            *)
(* The n-th byte that the generator produces is written n.                    *)
EXTENDS Naturals, Sequences

CONSTANT Limit      \* bytes given with -l, 0 when the dump has no limit

VARIABLES
    out,            \* the bytes the reader has received
    status          \* how the stream stands, as the reader and the shell see it

streamVars == <<out, status>>

Statuses == {"open", "complete", "cut", "abandoned"}

Init == out = <<>> /\ status = "open"

(* The reader receives the next byte of the generator, while there is one.    *)
Deliver ==
    /\ status = "open"
    /\ Limit = 0 \/ Len(out) < Limit
    /\ out' = Append(out, Len(out) + 1)
    /\ UNCHANGED status

(* End of file from a dump that succeeded.                                    *)
Complete ==
    /\ status = "open"
    /\ Limit # 0 /\ Len(out) = Limit
    /\ status' = "complete"
    /\ UNCHANGED out

(* End of file from a dump that died on an error.                             *)
Cut ==
    /\ status = "open"
    /\ status' = "cut"
    /\ UNCHANGED out

(* The reader goes away by itself.                                            *)
Abandon ==
    /\ status = "open"
    /\ status' = "abandoned"
    /\ UNCHANGED out

Next == Deliver \/ Complete \/ Cut \/ Abandon

Spec == Init /\ [][Next]_streamVars
=============================================================================
