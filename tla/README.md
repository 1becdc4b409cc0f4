# Verification of prng-test-bench

prng-test-bench collects pseudo-random number generators (PRNGs), dumps their output into PractRand's
`RNG_test`, measures their speed, and combines verdicts and benchmark figures. This directory holds TLA+
models of the program, TLC configurations that check them, and TLAPS proofs about them.

## Inventory: the parts of the system

| part | source | state it keeps | operations | talks to |
|---|---|---|---|---|
| output loop of `prng-dump` | `prng-dump.cpp` (`write_all`, `prng_dump`) | the buffer, how much of it is written, the number of buffers, the generator | fill the buffer, write all of it, retry after a short count or `EINTR`, stop at the limit | the kernel's pipe, `RNG_test` |
| options and dispatch of `prng-dump` | `prng-dump.cpp` (`process_options`, `main`, `make_seeded`), `include/prng.hpp` | limit, seed type, PRNG name | parse, look up, construct, exit | the registry, the PRNG classes |
| `test-prng-dump.bash` | same | output files, lists and json in `results/`, two files in `XDG_RUNTIME_DIR` | build the jobs, run them under GNU parallel, classify, join with benchmarks | `prng-dump`, `RNG_test`, `parallel`, the benchmark file |
| `run-benchmarks.bash`, `Makefile` | same | json and txt of each benchmark | run each program, filter, sort; order of the targets | the benchmark programs, the test script |
| word size | `include/uniform_bits.hpp`, `prng_dump`, the `stdinN` part of the script | none | bits of a value, the word it becomes, how it is read | both ends of the pipe |
| number parsing | `include/parse_int.hpp`, `get_num_threads.hpp` | none | base detection, range check | options, environment |
| seeding and life cycle | `include/urbg_base_class.hpp`, `include/seeds.hpp`, `include/seed_seq.hpp` | the state of a PRNG | construct from state or bytes, init, copy, wipe | every PRNG |
| linear PRNGs | `include/xoshiro*.hpp`, `include/xoroshiro*.hpp` | 2 to 16 words | init (zero seed, warm-up), next | seeding |
| chaotic and multiplicative PRNGs | `include/sfc*.hpp`, `romu*.hpp`, `jsf*.hpp`, `lcg*.hpp`, `pcg*.hpp`, `xsm*.hpp`, `lxm.hpp`, ... | 1 to 4 words | init, next | seeding |
| block-cipher PRNGs | `include/aes_*.hpp`, `sha*.hpp` | counters and keys | init (distinct lanes), next | seeding |
| mixers over a counter | `include/murmurhash.hpp`, `nasam.hpp`, `splitmix.hpp`, ... | one counter | next | seeding |
| multiplying mixers | `include/wyrand.hpp`, `mumx_*.hpp`, `squares.hpp`, `clmulrand.hpp` | one or two counters | next | seeding |
| warm-up survey | `warmup-survey.cpp` | none | first output that looks filled, from sparse seeds | the PRNGs that have a warm-up |
| results tools | `results/*.jq`, `results/plot-results.py` | none | filters and plots | the json files |

The parts meet in three places. `test-prng-dump.bash` asks `prng-dump -i` for the PRNGs and writes a command per
PRNG and seed type, `prng-dump -s SEED NAME | RNG_test stdinN ... > file`, which GNU parallel runs. `prng-dump`
and `RNG_test` meet in a pipe, which carries bytes and nothing else: neither the size of a word nor the reason for
an end of file. The script joins the verdicts with the benchmark file on the name of the PRNG, of which the
program keeps four lists by hand.

What is hard here: partial writes, `EINTR`, a reader that leaves and the two dispositions of `SIGPIPE`; parallel
jobs, invocations that are killed and files that outlive them; two programs that have to agree on a word size
with no way to notice when they do not; invocations that share their files; state updates that must be one-to-one and must keep away from zero at
every width; a position in a ring that lies outside the array it belongs to; counts written by hand from the
output of a survey; one algorithm written twice, for two processors.

## Modules

| module | models | built on |
|---|---|---|
| `ByteStream` | what a dump promises its reader | |
| `DumpPipe` | `prng_dump`, `write_all`, `write(2)`, the pipe, `RNG_test` as a reader | implements `ByteStream` |
| `PrngDump`, `Registry` | `process_options`, `main`, `make_seeded`; the four lists of names | ends where `DumpPipe` begins |
| `ParseInt` | `parse_int` and its forms for options and the environment, `get_num_threads` | used by `PrngDump` |
| `WordSize`, `WordStream` | the arithmetic of the word, and the words as a stream of bytes | `Words` |
| `TestRun` | `test-prng-dump.bash`: its jobs, lists and json files; `run-benchmarks.bash` | |
| `ScriptFiles` | the same script: its arguments, the files that invocations share, the outputs; the make targets | |
| `Words` | unsigned integers as sets of bits | |
| `LinearPrngs` | `next()` of the xoshiro and xoroshiro PRNGs | `Words` |
| `ArithmeticUpdates` | what `next()` does to the state in the PRNGs that add, multiply, rotate and shift; constants and distances are parameters | `Words` |
| `ChaoticPrngs` | `next()` of sfc, biski64, klimov_shamir_32, romu, jsf, stc_crand, gjrand, shioi, seiran | `ArithmeticUpdates` |
| `WeylPrngs` | `next()` of lcg, mcg, lehmer64, pcg, xsm, lxm, msws | `ArithmeticUpdates` |
| `MixSteps` | the steps that mixers are made of, and `next()` of a PRNG that mixes a counter | `Words` |
| `CounterMixers` | those PRNGs: the steps and constants of each (murmurhash3, splitmix64, nasam, xxh, ...) | `MixSteps` |
| `ProductPrngs` | `next()` of wyrand, mumx_ctr2, clmulrand, mumx_mumx_*, squares | `Words` |
| `SimdCompress` | `simd_compress.hpp`: two blocks into one by rounds of AES, on x86 and on ARM; the halves of a round are parameters | `Words` |
| `BlockPrngs` | the AES and SHA PRNGs; the instructions for SHA are parameters as well | `SimdCompress` |
| `Periods` | objects of the PRNGs that have no warm-up, called until their period ends; `init` and a call (`call`) are parameters | |
| `MCPeriods` | the same with `init` and `next()` of each of those PRNGs, and the seeds of `seeds.hpp` | `ChaoticPrngs`, `WeylPrngs`, `CounterMixers`, `ProductPrngs`, `BlockPrngs` |
| `Cycles` | what it is to go round all of a set, for the proofs | |
| `Urbg` | the life cycle of a PRNG object, `next()` as a parameter | |
| `Xoroshiro1024` | the ring of the 1024-bit PRNGs, as objects of `Urbg` | implements a shift register (`Register`) |
| `WarmupSurvey` | `warmup-survey.cpp` and the warm-ups it is about; `next()` of the PRNGs is a parameter | `Words` |
| `MCWarmupSurvey` | the same with the updates of its 15 PRNGs, at 32 and 64 bits | `LinearPrngs`, `ChaoticPrngs` |
| `MC...` | values of the constants for TLC | the module named |
| `..._proofs` | theorems and their proofs | the module named |
| `Prngs_proofs` | the same, about the updates as steps of `Urbg`, the ring, the mixers, the periods and the two versions of `simd_compress.hpp` | `Urbg`, `LinearPrngs`, `Xoroshiro1024`, `ArithmeticUpdates`, `MixSteps`, `SimdCompress`, `Cycles` |

Operators with a suffix after an underscore that are marked *mutant* are plausible wrong versions of the
definition they precede. No specification uses them; with one in place of the original, the property it is listed
with in `PROJECT.json` fails.

### DumpPipe and ByteStream

A byte is written as its position in the output of the generator, so that a lost, repeated or reordered byte shows.
`Fill` and `Finish` are the outer loop of `prng_dump`, `CallWrite` and `WriteAllDone` the loop of `write_all`;
`Advance`, `Retry` and `Fail` are what `write_all` does with the three outcomes of `write(2)`. The call itself is
not atomic: `Copy` moves a byte, so that `Signal`, `DeviceError` and `BrokenPipe` can end the call after any part
of the buffer, with a short count if anything was copied. `sigpipe` is inherited, so both values are initial
states. The reader reads a byte at a time until it has `TLMax`, dies at any time, or sees end of file.

`ByteStream` is the promise: the bytes of the generator in order, none missing, an end of file after exactly the
limit or a cut. The refinement maps the reader's bytes and the way it ended.

### PrngDump, Registry and ParseInt

A command line is a sequence of options and a sequence of operands, as `getopt` with `+` yields them. One action
per case of the switch, in the order given, then the checks of `main` in their order, then the chain of
`CONDITIONAL_DUMP`, which returns 0 when nothing matches. `Registry` has the lists (`prng -i`, the dispatch, the two
benchmarks) as functions of the instruction-set macros.

The argument of `-l` is a sequence of characters, which `parse_option_int` reads. `MCPrngDump` gives the texts and,
apart from them, the numbers that they stand for, and `TypeOK` and `DumpsWhatWasAsked` relate the two;
`NumbersParsed` says that a text which is accepted is read as its number. It assumes of
`ParseInt`, which makes TLC evaluate it, `NumbersParsed`, that a text is accepted only when all of it is the number in the range, what
the comment of `parse_int` says of a prefix with a minus sign, the range of `get_num_threads`, and that `process_options`
knows each seed type of the script.

### WordSize and WordStream

A number is the set of its bits, so a range of 2^128 - 1 is a small value and the real widths are used.
`uniform_bits`, `bit_floor`, `uint_bits` and `word` are the program's arithmetic; `stdin` is the script's. `UpTo` has
the numbers from 0 to a range, so that a logarithm is a statement about how many they are. The
stream is what is between them: bytes, least significant first, from which the reader cuts units of its own size.

### TestRun

The model is a series of invocations, because `results/` outlives each of them. An invocation builds its commands
per seed type, runs the jobs (`StartJob` truncates the file, `Report` adds a report, `CutShort` ends a test early),
writes the four lists in order, goes to the next seed type, joins with the benchmark file and writes the json
files. `Stopped` may end it at any step, leaving any part of the list that it was writing. `out`, `lists`, `json`,
`raw` and `bench` are the files; `tested` and `cut` are history variables. Without `pipefail` the status of a job is that
of `RNG_test`, so a test that is cut short may end with either status.

`run-benchmarks.bash` runs between invocations, in steps of its own: the program writes its json (`RunProgram`), the
shell empties the txt file (`Truncate`), `sort` fills it with what `jq` passed on (`WriteSorted`), and only after both
succeeded, as the script sets `pipefail`, comes the summary. It may stop at each step; the next invocation joins with
what is there.

### ScriptFiles

The same script, seen from the files. What an invocation is asked for goes through `info`, which is emptied and then
appended to, argument by argument, and is read again for each seed type, and through `cmds`, which the loop
truncates and writes at an offset of its own, and from which parallel reads commands before it has slots for them.
The jobs write their outputs at offsets of their own. Every access is a step, and `AtOnce` invocations may be under
way; `End` ends one at any step. `MakeTargets` has the options of the four targets of the `Makefile`, and a user adds
others. An argument is the set of lines that `grep -w` finds for it, so that two arguments, or one and a repetition,
may give the same PRNG twice.

### Urbg, LinearPrngs, Xoroshiro1024

An object is the array `s` and the position `p`, which only the 1024-bit PRNGs have. `Construct` is the constructor
with the first half of `init` (the zero state is replaced), `Discard` one turn of its warm-up loop, `Call` is
`operator()`, `Copy` stands for the defaulted copy and move operations, `Destroy` for the destructor, which wipes
`s` and leaves `p`. Memory is reused, so a stale `p` would be met by the next constructor. `seed` and `calls` are
history variables. `LinearPrngs` has the updates with their shifts and rotations as parameters and, below them,
every PRNG with its own numbers. A PRNG whose `init` does not look at the seed is an `Urbg` with `Iota = Zero`, so
that nothing is replaced, and one without a warm-up has `Discards = 0`.

`Xoroshiro1024` maps a ring to the words from its position on. The shift register it then implements is `Urbg`
again, with `Step` replaced: a specification without a position, in which nothing can be stale.

### WarmupSurvey

For each PRNG that `main` surveys: the constructor's warm-up from a zero seed, `reset_state`, and the 48 measured
outputs. The threshold, 40 % of the bits, is an integer comparison. `delta_discards` is kept because the survey prints it; the
counts in the classes are those of `popcount_discards`, so that no property is about the other. What `next()` does is a parameter, because that the
survey measures the object does not depend on it; `MCWarmupSurvey` has the updates, of two widths.

### The PRNGs without a warm-up, and Periods

These leave a zero seed as it is: `init` is empty, except in lxm and the AES counters. What keeps them alive are small
changes to the published updates, which the source marks with the author's initials, and constants that "must be
odd". `Periods` constructs an object from a seed and calls it: `start` is the object that the constructor left, `seen` and
`outputs` are history variables. `MCPeriods` has each PRNG by name and the seeds of `seeds.hpp`, all zeros and the pattern.

A state of one number in lcg, mcg, lehmer64 and pcg is represented by its low 8 bits, which addition and multiplication
compute without the others; the outputs come from the high bits and are left out. `ArithmeticUpdates` has the updates
without their constants and widths, for the proofs; `ChaoticPrngs` and `WeylPrngs` put in the constants of the source. In `CounterMixers` a mixer is the
list of its steps, which `MixSteps` defines, so that one definition of a step serves 23 PRNGs; in a shorter word a constant
keeps its low bits and a distance its proportion. `Reversible` is what makes a step one-to-one; `MCPeriods` assumes it, so that
TLC evaluates it, of the steps that are listed for each of those PRNGs (`MixersAreReversible`). xsm has two halves of 4 bits there and is also followed at its real width, with the
others that have no known period.

`ProductPrngs` keeps both halves of a product, with and without carries. In `SimdCompress` and `BlockPrngs` a block is two lanes, and the
two halves of an AES round and the SHA rounds are constant operators: what is modelled is which block goes where, as
counter, key or message, in which order, on which of the two processors. `MCPeriods` puts an S-box of four bits and a
linear mixture in their place, which treats the two lanes alike, as AES does.

## Runs

| run | what it asks | bounds |
|---|---|---|
| `dump_limited` | order, conservation, the limit, the end, the promise of `ByteStream` | buffer 4, pipe 3, limit of 3 buffers, a reader that would take one byte more, 3 signals |
| `dump_unlimited` | a dump without a limit ends because its reader does | buffer 2, pipe 4, reader takes 5, 2 signals |
| `command_lines` | what is dumped is what was asked for; success is never silent, whatever was compiled in; each PRNG that is dumped has benchmarks | sequences of up to 2 of 22 options and 7 lists of operands; every registered name with 4 seed types; all 8 sets of macros; integers of 8 bits |
| `word_stream` | units are words; no bit of a value is wasted, and each bit of a word is random by itself; `uniform_bits` is a logarithm | the seven kinds of registered PRNG at their real width and every range of up to 9 bits, 2 words, values with a bit at an edge |
| `test_recovery` | results say what the output files say, and a benchmark file is whole, after any history | 2 PRNGs, 2 seed types, 2 invocations, 2 runs of the benchmarks |
| `test_jobs` | invocations end; good means TLMAX or cut | 2 PRNGs, 2 slots, 3 reports, 2 invocations |
| `test_tlmax` | fails: good means TLMAX | the same, jobs that fail when cut |
| `script_files` | an invocation runs what it was asked for; outputs are whole and of the folding printed; those it wrote hold nothing of other invocations, also where jobs share a file or the folding changes | 2 PRNGs, 2 seed types, 3 invocations after each other, 2 reports |
| `at_once` | fails: PRNGs not given are all tested | the same, 2 invocations, both at once |
| `ring` | never zero, streams apart, and the shift register | 3 words of 2 bits, all seeds, 3 calls |
| `warmup_survey` | discards are enough; the survey measures the object | none: the real widths, 15 PRNGs, 48 calls |
| `periods` | periods are whole; mixers return outputs equally often; a zero seed is left; what comments say of products and keys; x86 and ARM agree | 41 PRNGs with states of one or two words of 8 bits, all 256 calls; 7 with blocks of 2 by 4 bits, 16 calls, every key; 20 at their real width, 12 calls |

Why the bounds are enough. In `dump_limited` a buffer does not fit in the pipe, so every call blocks, and three
signals fall in different parts of one buffer or in three buffers; in `dump_unlimited` two buffers fit. The reader
of the first outlives the limit and dies at any point as well. An option sets
the limit or the seed, does nothing, or ends the process: two options show every pair, an option repeated with
another value, and an exit after any other. In
`TestRun` two invocations are enough for the second to find all that the first can leave, because an invocation
reads nothing older than the last writer of each file; `ScriptFiles` has a third, for an output that two have left. The updates are linear in
the bits; words of two bits tell a shift from a rotation, and the theorems hold at every width. The two-word and
eight-word updates have no run of the life cycle: `ring` and `warmup_survey` run them, and their theorems have no bound.
In `periods` a congruential state of n bits has period 2^n for every n if it has for 8, which is decided by the
multiplier modulo 4 and the increment modulo 2 (`LcgPeriod`); the periods of counters, of xsm and of counters side by side are proved
for every width, too. That a mixer returns outputs equally often is proved for any width that is a power of 2; with 8 bits no step is the identity, and the distances of an exclusive or stay distinct.
Three words are the fewest at which a ring has a word that is neither of the two updated; three calls wrap it.
Counters that run side by side have a common period, so one word of 8 bits or two lanes of 4 show each of them.
`MaxCalls`, `MaxSignals`, `MaxRuns`, `MaxBenchmarks`, `MaxWords` and `Reports` are the only counters that are cut; each is in a guard.
`MaxBits` only says for which ranges TLC counts the numbers, one by one.

Results. All properties hold but two. `GoodReachedTlmax` (run `test_tlmax`): the script prints, for the good list,
the time "to reach $TLMAX (only for good generators", and takes as good every file with a `length=` line and
without `FAIL`. A test that is cut short after its first report leaves such a file; if the script is killed then
and run again, with `--dry-run` or for other PRNGs, the file is listed as good at the length it reached.
`GoodReachedTlmaxOrCut` is the weaker property that does hold. The json record of such a file has its true length.

`AllTestedIfNoneGiven` (run `at_once`): the help of the script says "If PRNGs are not given, they are all tested", and
an invocation that overlaps another one may succeed without that. The info and commands files have fixed names, and the
info file is read again for each seed type, so a second invocation that names one PRNG, started in the hours that the
tests take, leaves the first with that one for the seed types that follow. The overlap is the only way: for
invocations one after the other, any number of them and stopped at any access to a file, the property is proved
(`AllTestedAlone`).

What the script leaves open. The same PRNG given twice, with two jobs at a time, is two jobs on one file: their reports
mix: `OutputsAreOwn` has two parts, of which `WholeReports` excludes that case, and `NothingOfOthers` says what remains of it. The lists are made from every
output that matches TLMAX and the seed type, and `-f` is in no name: after a test with another `-f`, a dry run prints a
folding with which the outputs were not made, and so does a test of some PRNGs for the others. `FoldingAsPrinted` is
therefore about the targets of the `Makefile`, and a user's own `-f` is left to `NothingOfOthers`, which is about the
outputs that an invocation wrote itself. `EveryBitRandom` asks for eight uniform bits, because the narrowest word has
eight; a PRNG with fewer would be written with bits that are not random by themselves, and none is registered.

Observation. The survey's counts are lower bounds that the code meets exactly or nearly. After a zero seed, the first
output that the constructed xoshiro128++ returns has fewer than 40 % of its bits set. The survey asks for the
first output that reaches the threshold, not for all later ones, so this is no disagreement.

## Fairness

`DumpPipe`: weak fairness of the dump, of the kernel's side of a call, and of the reader: processes that can run
are run. Signals, errors and crashes are never required to happen. `NoOrphan` and `ReaderServed` need no more,
because each wait is ended by the other side. `TestRun`: weak fairness of the script and of each job;
`StartJob` of one job cannot be postponed for ever, because the others end and parallel fills a free slot. The steps of
`run-benchmarks.bash` are fair once it runs; nothing requires that it is started, or that anything is killed. The other specifications state no fairness and
claim no liveness.

## Proofs

| theorem | for every | argument |
|---|---|---|
| `DumpPipe_proofs!TypeCorrect`, `StreamInOrder`, `BytesConserved` | buffer, pipe, limit, TLMAX, number of signals | `DumpInv`, inductive |
| `DumpPipe_proofs!LimitIsObeyed` | the same | `DumpInv` and the limit as a number of buffers |
| `DumpPipe_proofs!Refinement` | the same | each step is a step of `ByteStream` or a stutter |
| `TestRun_proofs!TypeCorrect`, `ResultsAreTheOutputs`, `EveryPrngTested`, `GoodIsGoodOrCut` | set of PRNGs and seed types, seed lists, reports, slots, number of invocations and benchmarks | `Inv`, inductive |
| `TestRun_proofs!BenchmarkIsComplete`, `ChangesOwnResultsOnly` | the same | `Inv`; the second on each step from it |
| `PrngDump_proofs!TypeCorrect`, `SuccessIsNotSilent`, `DumpedIsBenchmarked` | set of command lines, set of macros | one step at a time; the lists of `Registry` compared macro by macro |
| `PrngDump_proofs!DumpsAsAsked` | the same, where `NumbersParsed` | `Obedient`, inductive |
| `ScriptFiles_proofs!TypeCorrect` | list of PRNGs, options, reports, number of invocations, however many at once | `TypeOK`, inductive |
| `ScriptFiles_proofs!RunsAsAsked`, `AllTestedAlone` | the same, where invocations do not overlap (`AtOnce = 1`) | `Obedient`, inductive |
| `ScriptFiles_proofs!ReportsAreWhole` | the same | `ReportsWhole`, inductive given `Obedient` |
| `ScriptFiles_proofs!FoldedAsPrinted` | the same | `Folded`, inductive |
| `ScriptFiles_proofs!OwnReportsOnly` | the same | `Owned`, inductive given `Folded` |
| `ScriptFiles_proofs!OutputsOwnAndWhole` | the same | `ReportsAreWhole` and `OwnReportsOnly` |
| `WordStream_proofs!FoldingWastesNothing`, `ScriptAgrees` | range of up to 128 bits | a value has at most twice the bits of its word |
| `WordStream_proofs!EveryBitIsRandom` | range of up to 128 bits, at least 8 of them uniform | only bits above the word are folded into it |
| `WordStream_proofs!UniformBitsAreLog`, `UniformBitsCounted` | range of up to 128 bits | numbers are counted by their highest bit |
| `WordStream_proofs!UnitsAreTheWords` | set of PRNGs of up to 128 bits, number of words | `InStep`, inductive |
| `Prngs_proofs!TypeCorrect`, `Apart` | PRNG whose `next()` is one-to-one (`OneToOne`) | induction on steps; runs traced backwards |
| `Prngs_proofs!NonZero` | such a PRNG that replaces a zero seed and comes to zero from zero only (`Permutes`) | induction on steps |
| `Prngs_proofs!Xoshiro4Safe`, `Xoshiro8Safe`, `XoroshiroSafe` | word width, shift, rotation | the update is one-to-one and keeps zero |
| `Prngs_proofs!SfcApart`, `StcCrandApart`, `BiskiApart`, `JsfApart`, `GjrandApart` | word width, shift but 0, rotation, increment | the update is one-to-one |
| `Prngs_proofs!RomuQuadApart`, `RomuTrioApart`, `RomuDuoApart`, `RomuDuoJrApart`, `LcgApart`, `LehmerApart`, `LxmOneToOne` | the same, odd multiplier | the same |
| `Prngs_proofs!KlimovShamirApart` | word width, odd constant | the squares differ in no bit below the second that differs |
| `Prngs_proofs!ShioiApart`, `SeiranApart` | constants, at a width of 64 | only zero is taken to zero |
| `Prngs_proofs!XsmApart`, `XsmIsOneNumber` | word width, both constants | a carry out of a word is found by comparing |
| `Prngs_proofs!MixedOneToOne`, `OutputsDiffer`, `OutputsOnce` | width that is a power of 2, list of reversible steps, increment | each step is one-to-one |
| `Prngs_proofs!OutputsFew` | the same, and a last shift as in splitmix32 | a mixture is its output and the bits that the shift drops |
| `Prngs_proofs!CounterPeriod`, `LcgPeriod`, `LehmerPeriod` | word width, odd increment, multiplier 1 modulo 4 | 2^k calls change bit k and keep those below |
| `Prngs_proofs!XsmPeriod` | word width but 1, odd first constant | the same for the first word; 2^W calls add an odd number to the second |
| `Prngs_proofs!CountersPeriod` | number of counters, width, increments of which one is odd, start | after k calls each has moved by k times its increment |
| `Periods_proofs!PeriodOfUpdates` | PRNG whose `next()` moves the state by an update with the period (`UpdatesFound`) | `GoesRound`, inductive |
| `Periods_proofs!OutputsOfUpdates` | the same, no result of which has too many states (`OutputsFound`) | `GoesRound` |
| `Prngs_proofs!PlatformsAreOne` | word width, halves of a round of AES | the two versions, written out, differ in a key of zeros |
| `WarmupSurvey_proofs!SurveyIsOfTheObject` | `next()`, and the discards of the source | `OnPath`, inductive |
| `Prngs_proofs!RingSafe` | ring size, width, shifts | the update of two neighbours is one-to-one |
| `Prngs_proofs!RingRefinement` | the same | one step of the ring is one step of the register |

Assumptions are those named in the modules: sizes and bounds are numbers, positive where a size must be, a seed list
is a nonempty sequence of seed types, a limit is a whole number of buffers (the `static_assert` of `prng_dump`),
shifts and rotations are below the width, four-word xoshiro shifts by at least one, multipliers are odd (the
`static_assert`s), `W <= 128` for the word sizes, the values of a PRNG have no bit beyond its `result_bits`. `prng-dump -i`
lists no PRNG twice, as it prints the keys of a map; an argument of the script stands for a set of those lines.
`NumbersParsed` is a hypothesis because what `parse_int` does to every text is induction over the characters; TLC
evaluates it on the texts of `MCPrngDump`. `AtOnce = 1` is one because without it the statements are false, which
is what the run `at_once` shows.

`InOrder` is not inductive: what goes into the pipe next is an element of `buf`. `DumpInv` adds `Conservation` and
`BufPosition` (what `buf` holds and how many buffers were drawn), from which the next byte follows. `LimitObeyed`
needs besides that `drawn` is `BufSize` times the number of buffers, as arithmetic about products that the solvers
get in separate lemmas.

`ResultsMatchOutputs` and `AllTested` speak of the end of an invocation only. `Inv` of `TestRun_proofs` says what is
there at every step: `Control`, who has variables and jobs and when; `Testing`, that the seed types behind `k`, and
after `parallel` the one at `k`, are tested; `Outputs`, that an output that is neither complete nor failed is being
written or was cut; `Listed`, that the four lists of a seed type behind `k` are right unless the type comes once more
in `seeds` (a type given twice is tested twice, and its lists are wrong in between); `Joined`, the same of the json
files in the second loop; `Benchmarking`, what each stage of the benchmark script has in its files. An invocation that
is stopped needs nothing of the lists: `Leave` empties `seeds`, and the next one writes before it reads.

`RunsWhatWasAsked` speaks of the commands run at the end of an invocation. `Obedient` of `ScriptFiles_proofs` follows
them there, through the files: `Listing`, that from `list` or the first `grep` on the info file has the lines of the
arguments so far, and all of them from `open` on, whatever was there before; `Writing`, that the commands file has the
commands of the lines read so far, and of all lines once parallel runs; `Running`, that the commands run, then those
that parallel has read, are those of the seed types behind `k` and the ones read for the type at `k`. `Alone` says that
only one invocation is under way, so that no other step touches the files. A stopped invocation keeps `Obedient` trivially,
as the next one empties the files first. `ReportsWhole` says of each output with a job of the invocation under way what
its last job wrote so far, which `StartJob` of a later job for the same file resets; it needs from `Obedient` that a file
has two jobs only if a PRNG was given twice. `Folded` gives each report in `results/` the folding of the targets for its TLMAX.
`Owned` says of each output with a job of the invocation under way that it holds reports of that invocation's jobs for that file, and no gap
up to what its last job has written: `StartJob` empties the file, perhaps under a job that goes on writing at its own
offset, and `Report` puts one such report more. It has no hypothesis about jobs that share a file, as `ReportsWhole` has.

`Obedient` of `PrngDump_proofs` says of the options behind `optind` what `DumpsWhatWasAsked` says of all; `InStep` of
`WordStream_proofs`, that the units read and the bytes in the pipe are the words written, cut at the sizes that `ScriptAgrees`
relates, including a unit that is half of a word of 128 bits.

`StreamsApart` is about two objects at the same call count. Its strengthening, `Traced`, says that each object is at
the end of a run of `Step` from the start that its seed gives. Two runs that end alike must, as `Step` is
one-to-one, be alike at every earlier index; a least-element argument stands in for induction. The hypothesis
`OneToOne`, and for the linear PRNGs `Permutes`, is then proved for each update from lemmas about words. Exclusive or
cancels, a rotation is one-to-one, and x is determined by x xor (x << k) because the lowest bit where two such x differ
would survive. For addition a carry into a bit depends only on the bits below it, so the lowest bit where x and y differ is
the lowest where x + z and y + z do (`AddCancels`), also where x is added to its own shift. A product is a sum of shifts:
with an odd factor the lowest difference stays where it is (`MulInjective`), by induction on the partial sums.

xsm keeps a number of twice the width in two words. That a sum which wrapped is less than its second operand is
`CarryFound`, from the highest bit where the two differ; that the word above may add the carry as a 1 is `Increment`;
together they make the two additions one (`XsmIsOneNumber`).

That klimov_shamir_32 is one-to-one comes from its square, which is a sum of shifts of x by the places of its own bits. Let
d be the lowest bit where x and y differ. Below d all terms agree. At d two terms can differ, that of bit 0 and that of
bit d, and both do if x is odd, or neither; so the squares agree up to d, unless d is 0, where the constant has a 1 (`SquaresAlike`). The other bit
that the source asserts is for the length of its cycles, which TLC follows.

A mixer is a list of steps, and the theorem about it goes back from the last. An exclusive or with shifts to the right keeps
the highest bit where two words differ, an addition of shifts to the left the lowest. Exclusive or with two
rotations does neither. A word that it takes to zero is the exclusive or of its rotations by a and b, hence of those by
2a and 2b, and so on until both are by multiples of W, when the word is zero (`RotationsOfZero`). This is why `MixedOneToOne` has the
hypothesis `PowerOfTwo(W)`, which `WidthsArePowers` gives for 8, 32 and 64; at a width of 3 with distances 1 and 2 the
statement is false. `OutputsDiffer` speaks of two calls; `OutputsOnce` and, for a
mixer that returns the high bits of its mixture, `OutputsFew` say how often an output comes in a whole period.

A PRNG has a full period if its update is one cycle: a set that is not empty and that the update does not leave is all of the
states (`OneCycle`). Addition and multiplication make that a matter of one bit after the other. `Affine(F, L, k)` says that F adds
to x its value at 0, which has a 1 at bit k and none below, and a part L(x) that is additive and takes a word to itself but for bits that
are at least two above its lowest 1, and k more. A counter and a congruential update with a multiplier that is 1
modulo 4 are affine at bit 0. F after F is affine at k + 1 if F is at k (`AffineTwice`): twice the 1 at bit k carries into the next, and what
multiplication brings is two bits above and cannot cancel it, which is what the modulo 4 is for. So a set that is not left has, with each word, one that differs
first at bit k, for every k, and that is all words (`FlipsVisitAll`).

In xsm the first word is a counter. What 2^k calls add to the second is some function of the first, and its parity (`Odd`) is
followed while the calls are doubled (`OddTwice`): the comparisons that find a carry are counted once each, and after 2^W
calls, when the first word is back, the second has moved by an odd number. It is then a counter of its own.

`PeriodOfUpdates` is the way from there to the calls, and `OutputsOfUpdates` that from `OutputsOnce` and `OutputsFew`. Their hypotheses, `UpdatesFound`
and `OutputsFound`, are the conclusions of the theorems above, said of the arrays that are the states: calls move the state by an update
that has the period, and no result has more than so many states (`OneNumberPeriod` takes a number to an array of it). So the objects are gone round (`UpdatesGoRound`), and in one way only (`OneWayRound`).
`FullPeriod` alone is not inductive, as it does not say that the calls so far are one path. `GoesRound` does: the objects whose states
are in `seen` are as many as the calls, each of them leads to another one or to the present object, and none back to the start. If the
present object were one of them before the period ends, `next()` would not leave them, and they would be all of the cycle, which is larger; after
the last call they are all, and only the start has none that leads to it. The outputs counted are those of the objects in `seen`, so `OutputsFound` bounds them.
No theorem puts a PRNG's `next()` of `MCPeriods` in for `call`: the two steps are proved apart, and that they meet for
each PRNG by name is what TLC checks in the run `periods`, at its width.

`SurveysTheObject` compares the object that the constructor warmed up with the one the survey has called as often. `OnPath` says
that there is one path of states from the start that both have, with the constructor's object at its end and the
survey's at call k.

The ring's refinement rests on arithmetic modulo N under the mapping `View`, once for a step and once for the
replaced zero seed, whose view is itself because a constructor starts at position 0.

Shifts of 2 and 19, and a rotation of 29 with a shift of 9, are one-to-one at the width they were chosen for, so the
theorems about shioi and seiran say W = 64. Both updates are linear, and a word that one takes to zero is followed from bit to bit
(`ShioiKernel`, `SeiranKernel`).

`UniformBitsIsLog` needs no induction: a range of w bits has at most the 2^w numbers of w bits, exactly if it is all ones, and
at least those of w - 1 bits, as its highest bit is above theirs.

Only model-checked: liveness; what depends on the constants of the source at a fixed width, which is computation: what the survey finds
(`WarmupIsLongEnough`), that the PRNGs of unknown period leave the zero seed (`LeavesZeroSeed`), what the comments say of products and keys
(`ProductsNotQuadratic`, `HalvesToldApart`), and that the increments and multipliers are what the theorems about periods ask; `PlatformsAgree`, of
which `PlatformsAreOne` is the statement about the operators; what `parse_int` reads, which is induction over the characters; that
word operators are the arithmetic of numbers (assumptions of `MCPeriods` that TLC evaluates at a width of 4).

## Not modelled

- What `RNG_test` decides: a verdict is a free choice at each report.
- The outputs of lcg, mcg, lehmer64 and pcg: they are cut from the high bits of a state of which the low bits are
  modelled.
- The instructions for AES and SHA, which are parameters of `BlockPrngs`; the forms of `simd_compress.hpp` for arrays
  of blocks and its versions for wider registers, which do the same rounds to more blocks at once.
- The bytes of random seeds, which the system makes, and `seed_seq`, which hands them to the standard library's
  engines: any state is a seed in `Urbg`.
- Lines that tear when two invocations write to one file: in `ScriptFiles` lines have one length.
- A benchmark that runs while the test script does; `make` runs one after the other.
- Jobs that outlive a killed script: a kill is one of the process group, as a terminal sends it.
- Timing in the benchmarks and Google Benchmark; the filters and plots in `results/`, which keep no state.

## Plan

Done, in this order: the dump and its promise; the script; life cycle and linear PRNGs; the ring; the survey; options
and registry; word size; the PRNGs without a warm-up; multiplying mixers and blocks of counters; number parsing; the
benchmark script; the files that invocations share; the proofs about `TestRun`, `PrngDump`, `ScriptFiles`, the stream of
words, the updates that add, multiply and square, the mixers over a counter, the two versions of the AES rounds, and the
periods of counters, congruential PRNGs and xsm. Left: `Job`, which would compose `PrngDump`, `DumpPipe` and the shell's exit
status, and implement `StartJob`, `Report` and `CutShort` of `TestRun`.
