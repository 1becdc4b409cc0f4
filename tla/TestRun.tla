-------------------------------- MODULE TestRun --------------------------------
(* test-prng-dump.bash: it runs "prng-dump | RNG_test > file" for every       *)
(* selected PRNG and seed type under GNU parallel, sorts the output files into*)
(* good and failed, and joins the verdicts with the benchmark results; and     *)
(* run-benchmarks.bash, which makes those.                                    *)
(*                                                                            *)
(* The files in results/ outlive an invocation, so the model is a series of   *)
(* invocations, tests, dry runs and benchmarks, any of which may stop at any  *)
(* step, each of them finding what the earlier ones left.                     *)
(*                                                                            *)
(* One TLMAX: its value is part of every file name.                           *)
EXTENDS Naturals, Sequences, FiniteSets

CONSTANTS
    Prngs,          \* the names that prng-dump -i lists
    Seeds,          \* the seed types
    SeedLists,      \* sequences of seed types given with -s
    Reports,        \* reports RNG_test makes on its way to TLMAX
    Jobs,           \* jobs that parallel runs at a time (-j)
    CutStatuses,    \* how a job may end whose test is cut short: "ok", "bad"
    MaxRuns,        \* bound: invocations of the script
    MaxBenchmarks   \* bound: runs of run-benchmarks.bash

ASSUME SeedListsAssumption ==
    SeedLists \subseteq Seq(Seeds) /\ \A l \in SeedLists : l # <<>>
ASSUME ReportsAssumption == Reports \in Nat \ {0}
ASSUME JobsAssumption    == Jobs \in Nat \ {0}
ASSUME CutStatusesAssumption == CutStatuses \subseteq {"ok", "bad"}
ASSUME BoundsAssumption == MaxRuns \in Nat /\ MaxBenchmarks \in Nat

(* The lists of a seed type, in the order in which the script writes them.    *)
ListNames == {"files.good", "files.failed", "names.good", "names.failed"}

VARIABLES
    \* files, which outlive the script
    out,            \* out[s][p]: what RNG_test wrote for seed type s and PRNG p: how many
                    \* reports, and whether the last one says FAIL
    lists,          \* lists[l][s]: the PRNGs in list l of seed type s
    json,           \* the combined results of each seed type
    raw,            \* prng-next-benchmark.json: the PRNGs in it, and the run that made it
    bench,          \* prng-next-benchmark.txt: the same; run 0 for no file
    \* the invocation under way
    pc, dry, seeds, k,      \* step, --dry-run, SEED_TYPES, index in it
    info,           \* PRNG_DUMP_INFO_FILE
    job,            \* job[p]: the pipeline that tests p with seed type seeds[k]
    \* history
    tested,         \* <<s, p>> whose job has ended in this invocation
    cut,            \* <<s, p>> whose last test was cut short
    runs,           \* invocations so far
    benchmarks      \* runs of run-benchmarks.bash so far

benchVars == <<raw, bench, benchmarks>>
fileVars == <<out, lists, json, benchVars>>
argVars  == <<dry, seeds, info>>
vars == <<fileVars, argVars, pc, k, job, tested, cut, runs>>

Seed == seeds[k]

NoJobs == [p \in Prngs |-> "none"]

Init ==
    /\ out = [s \in Seeds |-> [p \in Prngs |-> [length |-> 0, fail |-> FALSE]]]
    /\ lists = [l \in ListNames |-> [s \in Seeds |-> {}]]
    /\ json = [s \in Seeds |-> {}]
    /\ raw = [prngs |-> {}, age |-> 0] /\ bench = raw /\ benchmarks = 0
    /\ pc = "idle" /\ dry = FALSE /\ seeds = <<>> /\ k = 1 /\ info = {}
    /\ job = NoJobs
    /\ tested = {} /\ cut = {} /\ runs = 0

-----------------------------------------------------------------------------
(* What the greps find                                                        *)

HasLength(s) == {p \in Prngs : out[s][p].length > 0}
HasFail(s)   == {p \in Prngs : out[s][p].fail}

GoodFiles_AnyFile(s) == Prngs \ HasFail(s)      \* mutant: no test for a "length=" line

(* grep -l '^length= ' | xargs -r grep -L FAIL                                *)
GoodFiles(s) == HasLength(s) \ HasFail(s)

(* What the script writes in each list.                                       *)
Content(l) ==
    CASE l = "files.good"   -> GoodFiles(Seed)
      [] l = "files.failed" -> HasFail(Seed)
      [] l = "names.good"   -> lists["files.good"][Seed]
      [] l = "names.failed" -> lists["files.failed"][Seed]

(* The lines of the temporary file, joined with the benchmark on the name:    *)
(* a file without a test length is skipped.                                   *)
Records(s) ==
    LET lines(l, failure) ==
          {[prng |-> p, length |-> out[s][p].length, failure |-> failure, age |-> bench.age] :
              p \in lists[l][s] \cap HasLength(s) \cap bench.prngs}
    IN  lines("files.good", FALSE) \cup lines("files.failed", TRUE)

-----------------------------------------------------------------------------
(* The script ends; its variables and its jobs go with it.                    *)
Leave ==
    /\ pc' = "idle" /\ dry' = FALSE /\ seeds' = <<>> /\ k' = 1 /\ info' = {}
    /\ job' = NoJobs
    /\ tested' = {}

(* An invocation starts with options and PRNG names: the names are looked up  *)
(* in prng-dump -i and saved in the info file.                                *)
Invoke ==
    /\ pc = "idle"
    /\ runs < MaxRuns
    /\ runs' = runs + 1
    /\ seeds' \in SeedLists
    /\ dry' \in BOOLEAN
    /\ info' \in SUBSET Prngs \ {{}}
    /\ pc' = "commands"
    /\ UNCHANGED <<fileVars, k, job, tested, cut>>

Queue(ps) ==
    /\ pc = "commands"
    /\ job' = [p \in Prngs |-> IF p \in ps THEN "queued" ELSE "none"]
    /\ pc' = "parallel"
    /\ UNCHANGED <<fileVars, argVars, k, tested, cut, runs>>

BuildCommands_FirstSeedOnly ==  \* mutant: the info file is read once
    Queue(IF dry \/ k > 1 THEN {} ELSE info)
BuildCommands_NotDry == Queue(info)     \* mutant: --dry-run is not passed on

(* A command line per PRNG in the info file goes to the commands file, and    *)
(* parallel reads it; with --dry-run it runs none of them.                    *)
BuildCommands == Queue(IF dry THEN {} ELSE info)

-----------------------------------------------------------------------------
(* The jobs                                                                   *)

Running(p) == job[p] = "running"

(* The shell of the job truncates the output file.                            *)
StartJob(p) ==
    /\ pc = "parallel"
    /\ job[p] = "queued"
    /\ Cardinality({q \in Prngs : Running(q)}) < Jobs
    /\ job' = [job EXCEPT ![p] = "running"]
    /\ out' = [out EXCEPT ![Seed][p] = [length |-> 0, fail |-> FALSE]]
    /\ cut' = cut \ {<<Seed, p>>}
    /\ UNCHANGED <<lists, json, benchVars, argVars, pc, k, tested, runs>>

(* The job ends with an exit status.  Without pipefail that is the status of  *)
(* RNG_test alone.                                                            *)
EndJob(p, status) ==
    /\ job' = [job EXCEPT ![p] = status]
    /\ tested' = tested \cup {<<Seed, p>>}

(* RNG_test reports: after a failure or at TLMAX it stops.                    *)
Report(p, fail) ==
    /\ Running(p)
    /\ out' = [out EXCEPT ![Seed][p] = [length |-> @.length + 1, fail |-> fail]]
    /\ IF fail \/ out[Seed][p].length + 1 = Reports
       THEN EndJob(p, "ok")
       ELSE UNCHANGED <<job, tested>>
    /\ UNCHANGED <<lists, json, benchVars, argVars, pc, k, cut, runs>>

(* The test is cut short: prng-dump dies and RNG_test runs out of input, or   *)
(* RNG_test itself dies.                                                      *)
CutShort(p) ==
    /\ Running(p)
    /\ \E status \in CutStatuses : EndJob(p, status)
    /\ cut' = cut \cup {<<Seed, p>>}
    /\ UNCHANGED <<fileVars, argVars, pc, k, runs>>

JobStep(p) == StartJob(p) \/ (\E fail \in BOOLEAN : Report(p, fail)) \/ CutShort(p)

JobsEnded_NoWait == TRUE   \* mutant: parallel in the background
JobsEnded_AllOk ==         \* mutant: a job is tried again until it succeeds
    \A p \in Prngs : job[p] \in {"none", "ok"}

JobsEnded == \A p \in Prngs : job[p] \notin {"queued", "running"}

(* parallel ends when every job has; its status counts the bad ones, and the  *)
(* script gives up unless there are none.                                     *)
ParallelEnds ==
    /\ pc = "parallel"
    /\ JobsEnded
    /\ IF \E p \in Prngs : job[p] = "bad"
       THEN Leave
       ELSE pc' = "files.good" /\ job' = NoJobs /\ UNCHANGED <<argVars, k, tested>>
    /\ UNCHANGED <<fileVars, cut, runs>>

-----------------------------------------------------------------------------
(* The script, after the tests                                                *)

(* The two loops over the seed types: the next one starts at step first, and  *)
(* after the last one the script goes on with step then.                      *)
NextSeed_OneMore(first, then) ==        \* mutant: off by one
    IF k <= Len(seeds) THEN pc' = first /\ k' = k + 1 ELSE pc' = then /\ k' = 1

NextSeed(first, then) ==
    IF k < Len(seeds) THEN pc' = first /\ k' = k + 1 ELSE pc' = then /\ k' = 1

(* Write one list.  After the last list of the last seed type, a missing      *)
(* benchmark file ends the script, with success.                              *)
WriteList(l) ==
    /\ pc = l
    /\ lists' = [lists EXCEPT ![l][Seed] = Content(l)]
    /\ CASE l = "files.good"   -> pc' = "files.failed" /\ k' = k
         [] l = "files.failed" -> pc' = "names.good" /\ k' = k
         [] l = "names.good"   -> pc' = "names.failed" /\ k' = k
         [] l = "names.failed" ->
              NextSeed("commands", IF bench.age = 0 THEN "success" ELSE "json")
    /\ UNCHANGED <<out, json, benchVars, argVars, job, tested, cut, runs>>

WriteJson ==
    /\ pc = "json"
    /\ json' = [json EXCEPT ![Seed] = Records(Seed)]
    /\ NextSeed("json", "success")
    /\ UNCHANGED <<out, lists, benchVars, argVars, job, tested, cut, runs>>

Exit ==
    /\ pc = "success"
    /\ Leave
    /\ UNCHANGED <<fileVars, cut, runs>>

-----------------------------------------------------------------------------
(* run-benchmarks.bash, between invocations; the program is                   *)
(* prng-next-benchmark, the others write files that no script reads.          *)

scriptVars == <<out, lists, json, argVars, k, job, tested, cut, runs>>

Benchmark ==
    /\ pc = "idle"
    /\ benchmarks < MaxBenchmarks
    /\ benchmarks' = benchmarks + 1
    /\ pc' = "program"
    /\ UNCHANGED <<raw, bench, scriptVars>>

(* The program replaces its json file; when it fails, or the script is killed,*)
(* the script ends, and what is in the file is no json.                       *)
RunProgram ==
    /\ pc = "program"
    /\ \/ raw' = [prngs |-> Prngs, age |-> benchmarks] /\ pc' \in {"filter", "idle"}
       \/ raw' = [prngs |-> {}, age |-> benchmarks] /\ pc' = "idle"
    /\ UNCHANGED <<bench, benchmarks, scriptVars>>

(* jq | sort > txt: the shell empties the file first, and sort writes what it *)
(* got when jq ends.                                                          *)
Truncate ==
    /\ pc = "filter"
    /\ bench' = [prngs |-> {}, age |-> raw.age]
    /\ pc' \in {"sort", "idle"}
    /\ UNCHANGED <<raw, benchmarks, scriptVars>>

AfterSort_NoPipefail(part) == {"idle", "summary"}   \* mutant: the status of sort alone

(* With pipefail the script goes on only if jq and sort succeeded.            *)
AfterSort(part) == IF part = raw.prngs THEN {"idle", "summary"} ELSE {"idle"}

WriteSorted ==
    /\ pc = "sort"
    /\ \E part \in SUBSET raw.prngs :
         /\ bench' = [bench EXCEPT !.prngs = part]
         /\ pc' \in AfterSort(part)
    /\ UNCHANGED <<raw, benchmarks, scriptVars>>

(* The sorted results go to the terminal.                                     *)
Summary ==
    /\ pc = "summary"
    /\ pc' = "idle"
    /\ UNCHANGED <<benchVars, scriptVars>>

BenchmarkSteps == RunProgram \/ Truncate \/ WriteSorted \/ Summary

-----------------------------------------------------------------------------
(* The world around the scripts                                               *)

(* The script stops early, with its jobs: it is killed, or a command fails    *)
(* that is followed by "|| exit".  The file it was writing keeps any part of  *)
(* what was to be written; jq, which writes at its end, leaves it empty.      *)
Stopped ==
    /\ pc \in ListNames \cup {"commands", "parallel", "json"}
    /\ Leave
    /\ cut' = cut \cup {<<Seed, p>> : p \in {q \in Prngs : Running(q)}}
    /\ \/ UNCHANGED <<lists, json>>
       \/ /\ pc \in ListNames
          /\ \E part \in SUBSET Content(pc) : lists' = [lists EXCEPT ![pc][Seed] = part]
          /\ UNCHANGED json
       \/ /\ pc = "json"
          /\ json' = [json EXCEPT ![Seed] = {}]
          /\ UNCHANGED lists
    /\ UNCHANGED <<out, benchVars, runs>>

(* Nobody uses the script any more.                                           *)
Done ==
    /\ pc = "idle"
    /\ runs = MaxRuns
    /\ UNCHANGED vars

-----------------------------------------------------------------------------
Script ==
    BuildCommands \/ ParallelEnds \/ (\E l \in ListNames : WriteList(l)) \/ WriteJson \/ Exit

Next ==
    \/ Script \/ (\E p \in Prngs : JobStep(p)) \/ Invoke \/ Stopped
    \/ BenchmarkSteps \/ Benchmark
    \/ Done

(* The scripts and each job go on while they can; jobs are not starved by each*)
(* other, because parallel starts the next one as soon as a slot is free.     *)
Fairness ==
    WF_vars(Script) /\ WF_vars(BenchmarkSteps) /\ \A p \in Prngs : WF_vars(JobStep(p))

Spec == Init /\ [][Next]_vars /\ Fairness

-----------------------------------------------------------------------------
TypeOK ==
    /\ out \in [Seeds -> [Prngs -> [length : 0..Reports, fail : BOOLEAN]]]
    /\ lists \in [ListNames -> [Seeds -> SUBSET Prngs]]
    /\ json \in [Seeds -> SUBSET [prng : Prngs, length : 1..Reports,
                                failure : BOOLEAN, age : 1..MaxBenchmarks]]
    /\ {raw, bench} \subseteq [prngs : SUBSET Prngs, age : 0..MaxBenchmarks]
    /\ pc \in ListNames \cup {"idle", "commands", "parallel", "json", "success",
                              "program", "filter", "sort", "summary"}
    /\ dry \in BOOLEAN
    /\ seeds = <<>> \/ (seeds \in SeedLists /\ k \in 1..Len(seeds))
    /\ info \subseteq Prngs
    /\ job \in [Prngs -> {"none", "queued", "running", "ok", "bad"}]
    /\ tested \subseteq Seeds \X Prngs /\ cut \subseteq Seeds \X Prngs
    /\ runs \in 0..MaxRuns /\ benchmarks \in 0..MaxBenchmarks

SeedsGiven == {seeds[i] : i \in 1..Len(seeds)}

(* What an output file says, as the comment in the script has it.             *)
Verdict(f) ==
    CASE f.length = 0             -> "neither"
      [] f.length > 0 /\ f.fail   -> "failed"
      [] f.length > 0 /\ ~f.fail  -> "good"

Having(s, verdict) == {p \in Prngs : Verdict(out[s][p]) = verdict}

(* When an invocation succeeds, a test or a dry run, the four lists and the   *)
(* json file of each of its seed types say what the output files say,         *)
(* whatever stopped invocations left there, and the benchmark figures are the *)
(* latest.                                                                    *)
ResultsMatchOutputs ==
    pc = "success" =>
        \A s \in SeedsGiven :
            /\ \A l \in {"files.good", "names.good"} : lists[l][s] = Having(s, "good")
            /\ \A l \in {"files.failed", "names.failed"} : lists[l][s] = Having(s, "failed")
            /\ bench.age > 0 =>
                 json[s] = {[prng |-> p, length |-> out[s][p].length,
                             failure |-> Verdict(out[s][p]) = "failed", age |-> bench.age] :
                               p \in bench.prngs \ Having(s, "neither")}

(* An invocation that succeeds and is not a dry run has tested every PRNG     *)
(* selected with every seed type given.                                       *)
AllTested ==
    pc = "success" /\ ~dry => SeedsGiven \X info \subseteq tested

(* A PRNG listed as good passed every report up to TLMAX, or its last test    *)
(* was cut short.                                                             *)
GoodReachedTlmaxOrCut ==
    pc = "success" =>
        \A s \in SeedsGiven : \A p \in lists["files.good"][s] :
            out[s][p].length = Reports \/ <<s, p>> \in cut

(* "Time taken for RNG_test to reach $TLMAX (only for good generators": a     *)
(* PRNG listed as good reached TLMAX.                                         *)
GoodReachedTlmax ==
    pc = "success" =>
        \A s \in SeedsGiven : \A p \in lists["files.good"][s] : out[s][p].length = Reports

(* A run of run-benchmarks.bash that comes to its summary has put every PRNG, *)
(* with its own figures, in the file that the test script joins with, whatever*)
(* stopped runs left in it.                                                   *)
BenchmarkComplete ==
    pc = "summary" => bench = [prngs |-> Prngs, age |-> benchmarks]

(* An invocation changes the results of its own seed types only; a dry run    *)
(* changes no output of RNG_test, and a test those of the selected PRNGs only.*)
(* Nothing changes them when no invocation is under way: no job outlives one. *)
OwnResultsOnly ==
    [][ /\ \A s \in Seeds \ SeedsGiven :
             UNCHANGED <<out[s], json[s]>> /\ \A l \in ListNames : UNCHANGED lists[l][s]
        /\ dry => UNCHANGED out
        /\ \A s \in Seeds, p \in Prngs \ info : UNCHANGED out[s][p] ]_vars

(* Every invocation ends: no job and no slot is waited for in vain.           *)
EveryRunEnds == (pc # "idle") ~> (pc = "idle")
=============================================================================
