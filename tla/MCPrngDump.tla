------------------------------- MODULE MCPrngDump -------------------------------
(* Command lines for PrngDump: any that a user may type, up to two options    *)
(* long, and those that test-prng-dump.bash writes in its commands file.      *)
EXTENDS PrngDump

MCSpelling ==
    [zero |-> <<"0">>, zeros |-> <<"0", "0", "7">>, nine |-> <<"9">>, ten |-> <<"1", "0">>,
     huge |-> <<"9", "9", "9">>, empty |-> <<>>, minus_zero |-> <<"-", "0">>,
     minus_one |-> <<"-", "1">>, plus_one |-> <<"+", "1">>, one_g |-> <<"1", "g">>]

MCNumberOf ==
    [n \in {"zero", "zeros", "nine", "ten", "huge", "minus_zero"} |->
        CASE n = "zeros" -> 7 [] n = "nine" -> 9 [] n = "ten" -> 10
          [] n = "huge" -> 999 [] OTHER -> 0]

Opt(c, args) == {[c |-> c, optarg |-> a] : a \in args}

Options ==
    Opt("h", {""}) \cup Opt("V", {""}) \cup Opt("i", {""}) \cup Opt("v", {""}) \cup Opt("?", {""})
    \cup Opt("l", DOMAIN MCSpelling)
    \cup Opt("s", {"d", "default", "pat", "random", "zero", "9"})

Operands ==
    {<<>>, <<"lcg32">>, <<"sha1_ctr_128">>, <<"clmulrand">>, <<"std::mt19937">>,
     <<"mt19937">>, <<"lcg32", "lcg64">>}

UserCommandLines ==
    [options : UNION {[1 .. n -> Options] : n \in 0 .. 2}, operands : Operands]

(* The jobs: one for a seed type and a name that prng-dump -i has printed.    *)
VALID_SEED_TYPES == {"default", "pattern", "random", "zero"}

JobCommandLines ==
    [options : {<<o>> : o \in Opt("s", VALID_SEED_TYPES)},
     operands : {<<name>> : name \in prng_name_to_info(Features)}]

MCCommandLines == UserCommandLines \cup JobCommandLines

-----------------------------------------------------------------------------
(* What the comments of parse_int say, of every text of up to four characters *)
(* and of the examples they give.                                             *)
Characters == {"-", "+", " ", "0", "1", "8", "9", "x", "f"}
Texts      == UNION {[1 .. n -> Characters] : n \in 0 .. 4}

Decimals == {s \in Texts : s # <<>> /\ \A i \in DOMAIN s : s[i] \in {"0", "1", "8", "9"}}

ASSUME AllOfTheTextIsTheInteger ==
    \A s \in Texts :
        LET parsed == parse_int(s, -100, 100, 10)
        IN  /\ parsed.ok => s \in Decimals \/ (Head(s) = "-" /\ Tail(s) \in Decimals)
            /\ s \in Decimals /\ Len(s) <= 2 => parsed.ok
            /\ parsed.ok => /\ parsed.value \in -100 .. 100
                            /\ (Head(s) = "-") => parsed.value <= 0

ASSUME PrefixAndMinus ==
    /\ parse_int(<<"-", "0", "1", "0">>, IntMin, IntMax, 0) = Value(-10)
    /\ parse_int(<<"0", "1", "0">>, IntMin, IntMax, 0) = Value(8)
    /\ parse_int(<<"0", "x", "-", "5">>, IntMin, IntMax, 0) = Value(-5)
    /\ ~parse_int(<<"-", "0", "x", "5">>, IntMin, IntMax, 0).ok

(* The benchmarks run on a number of threads from one to as many as there     *)
(* are, or not at all; NUM_THREADS that is 0 or not set is no error, whatever *)
(* the machine.                                                               *)
ASSUME ThreadsInRange ==
    \A hw \in 0 .. 20, s \in {Null} \cup {t \in Texts : Len(t) <= 2} :
        LET threads == get_num_threads(s, hw)
        IN  /\ threads.ok => threads.value \in 1 .. (IF hw > 1 THEN hw ELSE 1)
            /\ s \in {Null, <<"0">>} => threads.ok

(* What the proofs suppose of Spelling and NumberOf.                          *)
ASSUME NumbersAsRead == NumbersParsed

(* No seed type of the script is unknown to process_options.                  *)
ASSUME SeedTypesKnown ==
    \A s \in VALID_SEED_TYPES : \E type \in DOMAIN SeedNames : s \in SeedNames[type]
=============================================================================
