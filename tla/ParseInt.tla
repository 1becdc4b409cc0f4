-------------------------------- MODULE ParseInt --------------------------------
(* parse_int.hpp and get_num_threads.hpp: integers from option arguments and  *)
(* from the environment.  A text is a sequence of characters, and what is no  *)
(* text at all, an unset variable or no argument, is Null.                    *)
EXTENDS Integers, SequencesExt

CONSTANT IntMax     \* std::numeric_limits<int>::max()

ASSUME IntAssumption == IntMax \in Nat \ {0}

IntMin == -IntMax - 1

Null == <<"null">>      \* no text: its only element is no character

Numerals == <<"0", "1", "2", "3", "4", "5", "6", "7", "8", "9", "a", "b", "c", "d", "e", "f",
              "g", "h", "i", "j", "k", "l", "m", "n", "o", "p", "q", "r", "s", "t", "u", "v",
              "w", "x", "y", "z">>

Value(value)  == [ok |-> TRUE, value |-> value]
Error(reason) == [ok |-> FALSE, reason |-> reason]

Digits(base) == {Numerals[i] : i \in 1..base}
DigitValue(c) == (CHOOSE i \in 1..Len(Numerals) : Numerals[i] = c) - 1

(* std::from_chars of an int: an optional minus sign and the digits after it; *)
(* rest is what follows them.                                                 *)
from_chars(s, base) ==
    LET negative  == IsPrefix(<<"-">>, s)
        unsigned  == IF negative THEN Tail(s) ELSE s
        digits    == SelectInSeq(unsigned, LAMBDA c : c \notin Digits(base))
        stop      == IF digits = 0 THEN Len(unsigned) ELSE digits - 1
        magnitude == FoldLeft(LAMBDA n, c : n * base + DigitValue(c), 0, SubSeq(unsigned, 1, stop))
        value     == IF negative THEN -magnitude ELSE magnitude
        rest      == SubSeq(unsigned, stop + 1, Len(unsigned))
    IN  IF stop = 0 THEN Error("invalid_argument")
        ELSE IF value \notin IntMin..IntMax THEN Error("result_out_of_range")
        ELSE [ok |-> TRUE, value |-> value, rest |-> rest]

(* The base that a prefix stands for, and the text without "0x" or "0X".      *)
Detected(s) ==
    IF IsPrefix(<<"0", "x">>, s) \/ IsPrefix(<<"0", "X">>, s) THEN [base |-> 16, text |-> SubSeq(s, 3, Len(s))]
    ELSE [base |-> IF Len(s) > 1 /\ s[1] = "0" THEN 8 ELSE 10, text |-> s]

(* All of s has to be an integer in the range.                                *)
parse_int(s, min, max, base) ==
    LET whole  == IF base = 0 THEN Detected(s) ELSE [base |-> base, text |-> s]
        parsed == from_chars(whole.text, whole.base)
    IN  IF ~parsed.ok THEN parsed
        ELSE IF parsed.rest # <<>> THEN Error("invalid_argument")
        ELSE IF parsed.value \notin min..max THEN Error("result_out_of_range")
        ELSE Value(parsed.value)

(* An error is an exception: invalid_argument or out_of_range.                *)
parse_option_int(s, min, max) ==
    IF s = Null THEN Error("invalid_argument") ELSE parse_int(s, min, max, 10)

(* A variable that is not set has the default, which need not be in the range.*)
parse_env_int(s, min, max, default) ==
    IF s = Null THEN Value(default) ELSE parse_option_int(s, min, max)

(* The threads of a benchmark; 0 stands for all of them.                      *)
get_num_threads(variable, hardware_concurrency) ==
    LET max_threads == IF hardware_concurrency > 1 THEN hardware_concurrency ELSE 1
        parsed      == parse_env_int(variable, 0, max_threads, 1)
    IN  IF parsed.ok /\ parsed.value = 0 THEN Value(max_threads) ELSE parsed
=============================================================================
