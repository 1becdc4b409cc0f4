-------------------------------- MODULE PrngDump --------------------------------
(* The command line of prng-dump (prng-dump.cpp): process_options, main up to *)
(* the call of prng_dump, and make_seeded.  What prng_dump then does is       *)
(* DumpPipe, with the limit found here.                                       *)
(*                                                                            *)
(* A command line is what getopt makes of it: the options, in order, and the  *)
(* operands, which begin at the first word that is no option.  An unknown     *)
(* option and an option without its argument are both "?".                    *)
EXTENDS ParseInt, Registry

CONSTANTS
    CommandLines,           \* records of options and operands
    Spelling,               \* the characters of each argument of -l, by its name
    NumberOf,               \* the arguments that stand for a number, and which
    max_limit_gibibytes,
    bytes_per_gibibyte

ASSUME NumberOfAssumption == \A t \in DOMAIN NumberOf : NumberOf[t] \in Nat

ASSUME GibibytesAssumption == max_limit_gibibytes \in Nat /\ bytes_per_gibibyte \in Nat

ASSUME CommandLinesAssumption ==
    \A line \in CommandLines :
        line.options \in Seq([c : STRING, optarg : STRING]) /\ line.operands \in Seq(STRING)

default_prng_name == "std::default_random_engine"

VARIABLES
    features,       \* what the program was compiled for
    argv,
    pc,             \* "options", "main", "dump", "success" or "failure"
    optind,         \* the next option
    limit_bytes, seed, prng_name,
    output          \* what went to stdout

vars == <<features, argv, pc, optind, limit_bytes, seed, prng_name, output>>

Init ==
    /\ features \in SUBSET Features
    /\ argv \in CommandLines
    /\ pc = "options" /\ optind = 1
    /\ limit_bytes = 0 /\ seed = "default_ctor" /\ prng_name = default_prng_name
    /\ output = "none"

Exit(status) == pc' = status /\ UNCHANGED <<features, argv, limit_bytes, seed>>

-----------------------------------------------------------------------------
(* process_options                                                            *)

(* How -s names the seed types.                                               *)
SeedNames ==
    [default_ctor |-> {"d", "def", "default"}, pattern |-> {"p", "pat", "pattern"},
     random |-> {"r", "rand", "random"}, zero |-> {"z", "zero"}]

Parsed_AnySize(text) == parse_option_int(Spelling[text], 0, IntMax)     \* mutant: no limit

(* What becomes of the argument of -l.                                        *)
Parsed(text) == parse_option_int(Spelling[text], 0, max_limit_gibibytes)

Option(c) ==
    /\ pc = "options"
    /\ optind <= Len(argv.options)
    /\ argv.options[optind].c = c
    /\ optind' = optind + 1
    /\ UNCHANGED prng_name

optarg == argv.options[optind].optarg

(* -h, -V and -i print something and exit.                                    *)
PrintAndExit ==
    \E what \in {<<"h", "usage">>, <<"V", "version">>, <<"i", "info">>} :
        /\ Option(what[1])
        /\ output' = what[2]
        /\ Exit("success")

Verbose ==
    /\ Option("v")
    /\ UNCHANGED <<features, argv, pc, limit_bytes, seed, output>>

SetLimit ==
    /\ Option("l")
    /\ Parsed(optarg).ok
    /\ limit_bytes' = Parsed(optarg).value * bytes_per_gibibyte
    /\ UNCHANGED <<features, argv, pc, seed, output>>

SetSeed_KeepFirst ==        \* mutant: only the first -s counts
    /\ Option("s")
    /\ \E type \in DOMAIN SeedNames :
          /\ optarg \in SeedNames[type]
          /\ seed' = IF seed = "default_ctor" THEN type ELSE seed
    /\ UNCHANGED <<features, argv, pc, limit_bytes, output>>

SetSeed ==
    /\ Option("s")
    /\ \E type \in DOMAIN SeedNames : optarg \in SeedNames[type] /\ seed' = type
    /\ UNCHANGED <<features, argv, pc, limit_bytes, output>>

BadOption ==
    /\ \/ Option("?")
       \/ Option("l") /\ ~Parsed(optarg).ok
       \/ Option("s") /\ \A type \in DOMAIN SeedNames : optarg \notin SeedNames[type]
    /\ Exit("failure")
    /\ UNCHANGED output

-----------------------------------------------------------------------------
(* main                                                                       *)

OptionsEnd ==
    /\ pc = "options"
    /\ optind > Len(argv.options)

(* "Too many arguments", "Unknown PRNG".                                      *)
BadOperand ==
    /\ OptionsEnd
    /\ \/ Len(argv.operands) > 1
       \/ Len(argv.operands) = 1 /\ argv.operands[1] \notin prng_name_to_info(features)
    /\ Exit("failure")
    /\ UNCHANGED <<optind, prng_name, output>>

ChoosePrng ==
    /\ OptionsEnd
    /\ \/ argv.operands = <<>> /\ prng_name' = prng_name
       \/ Len(argv.operands) = 1 /\ prng_name' = argv.operands[1]
    /\ prng_name' \in prng_name_to_info(features)
    /\ pc' = "main"
    /\ UNCHANGED <<features, argv, optind, limit_bytes, seed, output>>

(* main compares the name with one CONDITIONAL_DUMP after another; when none  *)
(* has it, main returns 0.                                                    *)
StartDump ==
    /\ pc = "main"
    /\ LET found == prng_name \in CONDITIONAL_DUMP(features)
       IN  /\ pc' = IF found THEN "dump" ELSE "success"
           /\ output' = IF found THEN "dump" ELSE output
    /\ UNCHANGED <<features, argv, optind, limit_bytes, seed, prng_name>>

(* The process has exited, or prng_dump runs.                                 *)
Done == pc \in {"success", "failure", "dump"} /\ UNCHANGED vars

make_seeded_SharedDefault(prng, type) ==    \* mutant: one version for both kinds of PRNG
    IF type = "default_ctor" THEN "fixed" ELSE type

(* How the PRNG is seeded: a std engine has a fixed default seed, and mine    *)
(* is filled with entropy.                                                    *)
make_seeded(prng, type) ==
    IF type = "default_ctor" THEN IF prng \in std_engines THEN "fixed" ELSE "random" ELSE type

Step ==
    PrintAndExit \/ Verbose \/ SetLimit \/ SetSeed \/ BadOption
    \/ BadOperand \/ ChoosePrng \/ StartDump

Next == Step \/ Done

Spec == Init /\ [][Next]_vars

-----------------------------------------------------------------------------
TypeOK ==
    /\ features \in SUBSET Features
    /\ argv \in CommandLines
    /\ pc \in {"options", "main", "dump", "success", "failure"}
    /\ optind \in 1 .. Len(argv.options) + 1
    /\ limit_bytes \in {n * bytes_per_gibibyte : n \in 0 .. max_limit_gibibytes}
    /\ seed \in DOMAIN SeedNames
    /\ prng_name \in prng_name_to_info(features)
    /\ output \in {"none", "usage", "version", "info", "dump"}

(* An argument of -l that is taken stands for the number it is read as.       *)
NumbersParsed ==
    \A line \in CommandLines : \A i \in 1 .. Len(line.options) :
        LET text == line.options[i].optarg
        IN  line.options[i].c = "l" /\ Parsed(text).ok =>
                text \in DOMAIN NumberOf /\ Parsed(text).value = NumberOf[text]

(* Where option c is among the first n, and the argument of the last of them.*)
Given(options, c, n) == {i \in 1 .. n : options[i].c = c}
LastArg(options, c, n) ==
    options[CHOOSE i \in Given(options, c, n) : \A j \in Given(options, c, n) : j <= i].optarg

(* What the last -s and the last -l of n options ask for.                     *)
SeedAsked(options, n) ==
    IF Given(options, "s", n) = {} THEN "default" ELSE LastArg(options, "s", n)
LimitAsked(options, n) ==
    IF Given(options, "l", n) = {} THEN 0
    ELSE NumberOf[LastArg(options, "l", n)] * bytes_per_gibibyte

(* What the help message says of -s.                                          *)
SeedPromised(text, prng) ==
    CASE text \in {"d", "def", "default"} /\ prng \in std_engines    -> "fixed"
      [] text \in {"d", "def", "default"} /\ prng \notin std_engines -> "random"
      [] text \in {"p", "pat", "pattern"}                            -> "pattern"
      [] text \in {"r", "rand", "random"}                            -> "random"
      [] text \in {"z", "zero"}                                      -> "zero"

(* A dump is the one that was asked for, however often an option was given:   *)
(* the PRNG named, seeded as the help message says of the last -s, and as     *)
(* many gibibytes as the last -l says.                                        *)
DumpsWhatWasAsked ==
    pc = "dump" =>
        /\ prng_name = IF argv.operands = <<>> THEN default_prng_name ELSE argv.operands[1]
        /\ make_seeded(prng_name, seed) =
               SeedPromised(SeedAsked(argv.options, Len(argv.options)), prng_name)
        /\ limit_bytes = LimitAsked(argv.options, Len(argv.options))

(* Success is never silent: a process that exits with success has printed     *)
(* what it was asked to print, whatever it was compiled for; a name that it   *)
(* prints with -i is one that it can dump.                                    *)
NoSilentSuccess == pc = "success" => output # "none"

(* A PRNG that is dumped, as every job of the test script dumps one, has a    *)
(* line in both benchmark files of the same build: the script joins the       *)
(* verdict with the speed of a call, and would drop the PRNG without a word.  *)
JobHasBenchmark ==
    pc = "dump" => prng_name \in REGISTER_BENCHMARK_PRNG_NEXT(features)
                                    \cap REGISTER_BENCHMARK_PRNG_CONSTRUCT(features)
=============================================================================
