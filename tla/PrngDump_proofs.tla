----------------------------- MODULE PrngDump_proofs ----------------------------
(* For every set of command lines, every limit of -l and every build: what    *)
(* prng-dump does with its options and its operand.                           *)
EXTENDS PrngDump, TLAPS

-----------------------------------------------------------------------------
(* The lists of names                                                         *)

(* No list of PRNGs has a name that the map of prng-dump lacks, and none      *)
(* lacks one that it has, whatever the compiler supports.                     *)
LEMMA ListsAgree ==
    ASSUME NEW f
    PROVE  /\ CONDITIONAL_DUMP(f) = prng_name_to_info(f)
           /\ REGISTER_BENCHMARK_PRNG_NEXT(f) = prng_name_to_info(f)
           /\ REGISTER_BENCHMARK_PRNG_CONSTRUCT(f) = prng_name_to_info(f)
<1>1. CONDITIONAL_DUMP(f) = prng_name_to_info(f)
  BY DEF CONDITIONAL_DUMP, prng_name_to_info
<1>2. REGISTER_BENCHMARK_PRNG_NEXT(f) = prng_name_to_info(f)
  BY DEF REGISTER_BENCHMARK_PRNG_NEXT, prng_name_to_info
<1>3. REGISTER_BENCHMARK_PRNG_CONSTRUCT(f) = prng_name_to_info(f)
  BY DEF REGISTER_BENCHMARK_PRNG_CONSTRUCT, prng_name_to_info
<1> QED BY <1>1, <1>2, <1>3

(* The default PRNG is in every build.                                        *)
LEMMA DefaultIsListed ==
    ASSUME NEW f
    PROVE  default_prng_name \in prng_name_to_info(f)
  BY DEF default_prng_name, prng_name_to_info

(* What -l accepts is a limit that prng-dump allows.                          *)
LEMMA ParsedInRange ==
    ASSUME NEW text, Parsed(text).ok
    PROVE  Parsed(text).value \in 0 .. max_limit_gibibytes
<1> DEFINE s == Spelling[text]
           parsed == from_chars(s, 10)
<1>1. Parsed(text) = IF s = Null THEN Error("invalid_argument")
                     ELSE IF ~parsed.ok THEN parsed
                     ELSE IF parsed.rest # <<>> THEN Error("invalid_argument")
                     ELSE IF parsed.value \notin 0 .. max_limit_gibibytes THEN Error("result_out_of_range")
                     ELSE Value(parsed.value)
  BY DEF Parsed, parse_option_int, parse_int
<1> HIDE DEF s, parsed
<1>2. \A reason : Error(reason).ok = FALSE
  BY DEF Error
<1>3. Parsed(text) = Value(parsed.value) /\ parsed.value \in 0 .. max_limit_gibibytes
  BY <1>1, <1>2
<1> QED BY <1>3 DEF Value

-----------------------------------------------------------------------------
(* The options                                                                *)

(* One more option: it is the last of its letter, and changes no other.       *)
LEMMA OneMoreOption ==
    ASSUME NEW options, NEW n \in Nat, NEW c
    PROVE  /\ options[n + 1].c = c => Given(options, c, n + 1) # {} /\ LastArg(options, c, n + 1) = options[n + 1].optarg
           /\ options[n + 1].c # c => Given(options, c, n + 1) = Given(options, c, n) /\ LastArg(options, c, n + 1) = LastArg(options, c, n)
<1>1. ASSUME options[n + 1].c = c
      PROVE  Given(options, c, n + 1) # {} /\ LastArg(options, c, n + 1) = options[n + 1].optarg
  <2>1. n + 1 \in Given(options, c, n + 1) /\ \A j \in Given(options, c, n + 1) : j \in Nat /\ j <= n + 1
    BY <1>1 DEF Given
  <2>2. \A i \in Given(options, c, n + 1) : (\A j \in Given(options, c, n + 1) : j <= i) => i = n + 1
    BY <2>1
  <2>3. (CHOOSE i \in Given(options, c, n + 1) : \A j \in Given(options, c, n + 1) : j <= i) = n + 1
    BY <2>1, <2>2
  <2> QED BY <2>1, <2>3 DEF LastArg
<1>2. ASSUME options[n + 1].c # c
      PROVE  Given(options, c, n + 1) = Given(options, c, n) /\ LastArg(options, c, n + 1) = LastArg(options, c, n)
  <2>1. Given(options, c, n + 1) = Given(options, c, n)
    BY <1>2 DEF Given
  <2> QED BY <2>1 DEF LastArg
<1> QED BY <1>1, <1>2

-----------------------------------------------------------------------------
(* Types                                                                      *)

LEMMA CommandLineTyped ==
    ASSUME argv \in CommandLines
    PROVE  /\ argv.options \in Seq([c : STRING, optarg : STRING])
           /\ Len(argv.options) \in Nat
           /\ \A i \in 1 .. Len(argv.options) : argv.options[i].optarg \in STRING
           /\ argv.operands \in Seq(STRING)
<1>1. argv.options \in Seq([c : STRING, optarg : STRING]) /\ argv.operands \in Seq(STRING)
  BY CommandLinesAssumption
<1>2. Len(argv.options) \in Nat
  BY <1>1
<1>3. ASSUME NEW i \in 1 .. Len(argv.options)
      PROVE  argv.options[i].optarg \in STRING
  <2>1. \A T : \A s \in Seq(T) : \A j \in 1 .. Len(s) : s[j] \in T
    OBVIOUS
  <2>2. argv.options[i] \in [c : STRING, optarg : STRING]
    BY <1>1, <1>3, <2>1
  <2> QED BY <2>2
<1> QED BY <1>1, <1>2, <1>3

(* The types are inductive by themselves.                                     *)
THEOREM TypeCorrect == Spec => []TypeOK
<1>1. Init => TypeOK
  <2> SUFFICES ASSUME Init PROVE TypeOK
    OBVIOUS
  <2>1. limit_bytes = 0 * bytes_per_gibibyte /\ 0 \in 0 .. max_limit_gibibytes
    BY GibibytesAssumption DEF Init
  <2>2. limit_bytes \in {n * bytes_per_gibibyte : n \in 0 .. max_limit_gibibytes}
    BY <2>1
  <2>3. optind \in 1 .. Len(argv.options) + 1
    BY CommandLineTyped DEF Init
  <2>4. prng_name \in prng_name_to_info(features)
    BY DefaultIsListed DEF Init
  <2>5. seed \in DOMAIN SeedNames
    BY DEF Init, SeedNames
  <2> QED BY <2>2, <2>3, <2>4, <2>5 DEF Init, TypeOK
<1>2. TypeOK /\ [Next]_vars => TypeOK'
  <2> SUFFICES ASSUME TypeOK, [Next]_vars PROVE TypeOK'
    OBVIOUS
  <2>1. ASSUME NEW c, Option(c)
        PROVE  optind' = optind + 1 /\ optind + 1 \in 1 .. Len(argv.options) + 1 /\ prng_name' = prng_name
    BY <2>1, CommandLineTyped DEF Option, TypeOK
  <2>2. CASE PrintAndExit
    <3> PICK what \in {<<"h", "usage">>, <<"V", "version">>, <<"i", "info">>} :
          Option(what[1]) /\ output' = what[2] /\ Exit("success")
      BY <2>2 DEF PrintAndExit
    <3>1. output' \in {"usage", "version", "info"}
      OBVIOUS
    <3> QED BY <2>1, <3>1 DEF TypeOK, Exit
  <2>3. CASE Verbose
    BY <2>1, <2>3 DEF Verbose, TypeOK
  <2>4. CASE SetLimit
    <3>1. limit_bytes' \in {n * bytes_per_gibibyte : n \in 0 .. max_limit_gibibytes}
      BY <2>4, ParsedInRange DEF SetLimit
    <3> QED BY <2>1, <2>4, <3>1 DEF SetLimit, TypeOK
  <2>5. CASE SetSeed
    BY <2>1, <2>5 DEF SetSeed, TypeOK
  <2>6. CASE BadOption
    BY <2>1, <2>6 DEF BadOption, Exit, TypeOK
  <2>7. CASE BadOperand
    BY <2>7 DEF BadOperand, Exit, TypeOK
  <2>8. CASE ChoosePrng
    BY <2>8 DEF ChoosePrng, TypeOK
  <2>9. CASE StartDump
    BY <2>9 DEF StartDump, TypeOK
  <2>10. CASE UNCHANGED vars
    BY <2>10 DEF vars, TypeOK
  <2> QED BY <2>2, <2>3, <2>4, <2>5, <2>6, <2>7, <2>8, <2>9, <2>10 DEF Next, Step, Done
<1> QED BY <1>1, <1>2, PTL DEF Spec

-----------------------------------------------------------------------------
(* What was asked for                                                         *)

PrngAsked == IF argv.operands = <<>> THEN default_prng_name ELSE argv.operands[1]

(* The options read so far have been obeyed; past them, all have been read.   *)
AskedSoFar ==
    /\ SeedAsked(argv.options, optind - 1) \in SeedNames[seed]
    /\ limit_bytes = LimitAsked(argv.options, optind - 1)

Obedient ==
    /\ pc \in {"options", "main", "dump"} => AskedSoFar
    /\ pc = "options" => prng_name = default_prng_name
    /\ pc \in {"main", "dump"} => optind = Len(argv.options) + 1 /\ prng_name = PrngAsked

(* One more option asks for what it says; one of another letter, for nothing. *)
LEMMA AskedOnceMore ==
    ASSUME NEW options, NEW n \in Nat
    PROVE  /\ options[n + 1].c = "s" => SeedAsked(options, n + 1) = options[n + 1].optarg
           /\ options[n + 1].c # "s" => SeedAsked(options, n + 1) = SeedAsked(options, n)
           /\ options[n + 1].c = "l" =>
                 LimitAsked(options, n + 1) = NumberOf[options[n + 1].optarg] * bytes_per_gibibyte
           /\ options[n + 1].c # "l" => LimitAsked(options, n + 1) = LimitAsked(options, n)
  BY OneMoreOption DEF SeedAsked, LimitAsked

LEMMA ObedientInit == Init => Obedient
<1> SUFFICES ASSUME Init PROVE Obedient
  OBVIOUS
<1>1. Given(argv.options, "s", optind - 1) = {} /\ Given(argv.options, "l", optind - 1) = {}
  BY DEF Init, Given
<1>2. "default" \in SeedNames["default_ctor"]
  BY DEF SeedNames
<1> QED BY <1>1, <1>2 DEF Init, Obedient, AskedSoFar, SeedAsked, LimitAsked

LEMMA ObedientStep == NumbersParsed /\ TypeOK /\ Obedient /\ [Next]_vars => Obedient'
<1> SUFFICES ASSUME NumbersParsed, TypeOK, Obedient, [Next]_vars PROVE Obedient'
  OBVIOUS
<1> DEFINE n == optind - 1
<1>1. ASSUME NEW c, Option(c)
      PROVE  /\ n \in Nat /\ n + 1 = optind /\ optind' = optind + 1 /\ optind' - 1 = n + 1
             /\ argv.options[n + 1].c = c /\ optarg = argv.options[n + 1].optarg
             /\ optarg \in STRING
             /\ pc = "options" /\ prng_name' = prng_name
             /\ AskedSoFar /\ prng_name = default_prng_name
  BY <1>1, CommandLineTyped DEF Option, TypeOK, Obedient, optarg
<1> HIDE DEF n
<1>2. CASE PrintAndExit
  <2> PICK what \in {<<"h", "usage">>, <<"V", "version">>, <<"i", "info">>} :
        Option(what[1]) /\ output' = what[2] /\ Exit("success")
    BY <1>2 DEF PrintAndExit
  <2> QED BY DEF Obedient, Exit
<1>3. CASE Verbose
  <2>1. AskedSoFar'
    BY <1>1, <1>3, AskedOnceMore DEF Verbose, AskedSoFar
  <2> QED BY <1>1, <1>3, <2>1 DEF Verbose, Obedient
<1>4. CASE SetLimit
  <2>1. Option("l") /\ Parsed(optarg).ok /\ limit_bytes' = Parsed(optarg).value * bytes_per_gibibyte
    BY <1>4 DEF SetLimit
  <2>2. limit_bytes' = NumberOf[optarg] * bytes_per_gibibyte
    BY <1>1, <2>1 DEF NumbersParsed, TypeOK, Option
  <2>3. AskedSoFar'
    BY <1>1, <1>4, <2>1, <2>2, AskedOnceMore DEF SetLimit, AskedSoFar
  <2> QED BY <1>1, <1>4, <2>3 DEF SetLimit, Obedient
<1>5. CASE SetSeed
  <2>1. Option("s") /\ optarg \in SeedNames[seed']
    BY <1>5 DEF SetSeed
  <2>2. AskedSoFar'
    BY <1>1, <1>5, <2>1, AskedOnceMore DEF SetSeed, AskedSoFar
  <2> QED BY <1>1, <1>5, <2>2 DEF SetSeed, Obedient
<1>6. CASE BadOption
  BY <1>6 DEF BadOption, Exit, Obedient
<1>7. CASE BadOperand
  BY <1>7 DEF BadOperand, Exit, Obedient
<1>8. CASE ChoosePrng
  <2>1. optind = Len(argv.options) + 1
    BY <1>8, CommandLineTyped DEF ChoosePrng, OptionsEnd, TypeOK
  <2>2. prng_name' = PrngAsked
    BY <1>8, CommandLineTyped DEF ChoosePrng, OptionsEnd, Obedient, PrngAsked, TypeOK
  <2> QED BY <1>8, <2>1, <2>2 DEF ChoosePrng, OptionsEnd, Obedient, AskedSoFar, PrngAsked
<1>9. CASE StartDump
  <2>1. prng_name \in CONDITIONAL_DUMP(features)
    BY ListsAgree DEF TypeOK
  <2> QED BY <1>9, <2>1 DEF StartDump, Obedient, AskedSoFar, PrngAsked
<1>10. CASE UNCHANGED vars
  BY <1>10 DEF vars, Obedient, AskedSoFar, PrngAsked
<1> QED BY <1>2, <1>3, <1>4, <1>5, <1>6, <1>7, <1>8, <1>9, <1>10 DEF Next, Step, Done

THEOREM ObedientAlways == NumbersParsed => (Spec => []Obedient)
<1> SUFFICES ASSUME NumbersParsed PROVE Spec => []Obedient
  OBVIOUS
<1>1. TypeOK /\ Obedient /\ [Next]_vars => Obedient'
  BY ObedientStep
<1> QED BY <1>1, ObedientInit, TypeCorrect, PTL DEF Spec

-----------------------------------------------------------------------------
(* The properties                                                             *)

(* Every way of naming a seed type gets the seeding that the help message     *)
(* promises for that PRNG.                                                    *)
LEMMA SeededAsPromised ==
    ASSUME NEW prng, NEW type \in DOMAIN SeedNames, NEW text \in SeedNames[type]
    PROVE  make_seeded(prng, type) = SeedPromised(text, prng)
<1>1. CASE type = "default_ctor"
  <2>1. text \in {"d", "def", "default"}
    BY <1>1 DEF SeedNames
  <2>2. CASE prng \in std_engines
    BY <1>1, <2>1, <2>2 DEF make_seeded, SeedPromised
  <2>3. CASE prng \notin std_engines
    BY <1>1, <2>1, <2>3 DEF make_seeded, SeedPromised
  <2> QED BY <2>2, <2>3
<1>2. CASE type = "pattern"
  <2>1. text \in {"p", "pat", "pattern"}
    BY <1>2 DEF SeedNames
  <2> QED BY <1>2, <2>1 DEF make_seeded, SeedPromised
<1>3. CASE type = "random"
  <2>1. text \in {"r", "rand", "random"}
    BY <1>3 DEF SeedNames
  <2> QED BY <1>3, <2>1 DEF make_seeded, SeedPromised
<1>4. CASE type = "zero"
  <2>1. text \in {"z", "zero"}
    BY <1>4 DEF SeedNames
  <2> QED BY <1>4, <2>1 DEF make_seeded, SeedPromised
<1> QED BY <1>1, <1>2, <1>3, <1>4 DEF SeedNames

(* For every command line, limit and build, a dump is the one that was asked  *)
(* for, however often an option was given, if texts stand for the numbers     *)
(* that they are read as (process_options, main, make_seeded).                *)
THEOREM DumpsAsAsked == NumbersParsed => (Spec => []DumpsWhatWasAsked)
<1>1. TypeOK /\ Obedient => DumpsWhatWasAsked
  <2> SUFFICES ASSUME TypeOK, Obedient, pc = "dump" PROVE DumpsWhatWasAsked
    BY DEF DumpsWhatWasAsked
  <2>1. optind - 1 = Len(argv.options)
    BY CommandLineTyped DEF TypeOK, Obedient
  <2>2. make_seeded(prng_name, seed) =
           SeedPromised(SeedAsked(argv.options, Len(argv.options)), prng_name)
    BY <2>1, SeededAsPromised DEF Obedient, AskedSoFar, TypeOK
  <2> QED BY <2>1, <2>2 DEF DumpsWhatWasAsked, Obedient, AskedSoFar, PrngAsked
<1> QED BY <1>1, ObedientAlways, TypeCorrect, PTL

(* A process that exits with success has printed something, whatever the      *)
(* command line and the build: main's list has every name of the map.         *)
THEOREM SuccessIsNotSilent == Spec => []NoSilentSuccess
<1>1. Init => NoSilentSuccess
  BY DEF Init, NoSilentSuccess
<1>2. TypeOK /\ NoSilentSuccess /\ [Next]_vars => NoSilentSuccess'
  <2> SUFFICES ASSUME TypeOK, NoSilentSuccess, [Next]_vars PROVE NoSilentSuccess'
    OBVIOUS
  <2>1. CASE PrintAndExit
    <3> PICK what \in {<<"h", "usage">>, <<"V", "version">>, <<"i", "info">>} :
          Option(what[1]) /\ output' = what[2] /\ Exit("success")
      BY <2>1 DEF PrintAndExit
    <3>1. output' # "none"
      OBVIOUS
    <3> QED BY <3>1 DEF NoSilentSuccess
  <2>2. CASE StartDump
    <3>1. prng_name \in CONDITIONAL_DUMP(features)
      BY ListsAgree DEF TypeOK
    <3> QED BY <2>2, <3>1 DEF StartDump, NoSilentSuccess
  <2>3. CASE Verbose \/ SetLimit \/ SetSeed \/ ChoosePrng
    BY <2>3 DEF Verbose, SetLimit, SetSeed, ChoosePrng, Option, NoSilentSuccess
  <2>4. CASE BadOption \/ BadOperand
    BY <2>4 DEF BadOption, BadOperand, Exit, NoSilentSuccess
  <2>5. CASE UNCHANGED vars
    BY <2>5 DEF vars, NoSilentSuccess
  <2> QED BY <2>1, <2>2, <2>3, <2>4, <2>5 DEF Next, Step, Done
<1> QED BY <1>1, <1>2, TypeCorrect, PTL DEF Spec

(* A PRNG that is dumped has its line in both benchmark files, in every build.*)
THEOREM DumpedIsBenchmarked == Spec => []JobHasBenchmark
<1>1. TypeOK => JobHasBenchmark
  BY ListsAgree DEF TypeOK, JobHasBenchmark
<1> QED BY <1>1, TypeCorrect, PTL
=============================================================================
